---- MODULE Spec2Model ----
(***************************************************************************)
(* Cerebro research orchestrator (src/main.py): the quota-aware LLM call   *)
(* wrapper, the schema-drift-tolerant Airtable write adapter, the session  *)
(* cache, session resolution and the start / refine / finalize / get /     *)
(* export handlers.                                                        *)
(*                                                                         *)
(* Conventions of the model                                                *)
(*  - A Python str is a sequence of tokens (Text).  "x in text" is a       *)
(*    contiguous-subsequence test, lower()/title()/strip() act token by    *)
(*    token, an f-string is a concatenation.                               *)
(*  - A Python dict is a function whose DOMAIN is its key set; d.get(k, v) *)
(*    is Get(d, k, v).                                                     *)
(*  - Timestamps (createdAt, updatedAt) are left out: no handler branches  *)
(*    on them.                                                             *)
(*  - Airtable record ids are fresh.  os.urandom session ids are fresh in  *)
(*    Spec (Start); SpecOwners (StartAny) lets os.urandom repeat an id, so *)
(*    that one cache slot can pass from one session to another.            *)
(*  - A handler suspends only at its awaited LLM call (lines 572, 788,     *)
(*    875); the Airtable calls are synchronous.  Spec runs each request    *)
(*    from start to end; SpecInFlight splits start, refine and finalize at *)
(*    the await, so that requests overlap.                                 *)
(***************************************************************************)
EXTENDS Integers, Sequences, FiniteSets, TLC

VARIABLES
    config,     \* module-level configuration read at import (lines 30-46)
    schema,     \* the schema of the Airtable base the table belongs to
    cache,      \* SESSION_CACHE (line 51)
    issues,     \* PROVIDER_ISSUES (line 52)
    store,      \* the rows of the Airtable table behind `table` (line 46)
    nextId,     \* number of sessions started so far (freshness of ids)
    faults,     \* provider failures met so far, one per request and provider
    resp,       \* the last request and its response, with what the handler did
    rw,         \* one run of _generate_content_with_retry
    ww,         \* one run of _create_record_resilient / _update_record_resilient
    inflight    \* the requests suspended at their LLM call, and the dicts they hold

vars == <<config, schema, cache, issues, store, nextId, faults, resp, rw, ww, inflight>>

(***************************************************************************)
(* Bounds                                                                  *)
(***************************************************************************)
MaxSessions == 1
MaxRefinements == 2
MaxRetriesBound == 2
MaxFaults == 2
MaxStarts == 2
MaxRequests == 4

(***************************************************************************)
(* Text                                                                    *)
(***************************************************************************)
Get(d, k, default) == IF k \in DOMAIN d THEN d[k] ELSE default

\* str.lower() on one token
LowerTok(t) ==
    CASE t = "Rate" -> "rate"
      [] t = "Too" -> "too"
      [] t = "Many" -> "many"
      [] t = "Requests" -> "requests"
      [] t = "Quota" -> "quota"
      [] t = "RESOURCE_EXHAUSTED" -> "resource_exhausted"
      [] t = "ResourceExhausted" -> "resourceexhausted"
      [] t = "Retry" -> "retry"
      [] t = "In" -> "in"
      [] t = "Connection" -> "connection"
      [] t = "Graph" -> "graph"
      [] t = "Databases" -> "databases"
      [] t = "All" -> "all"
      [] t = "AI" -> "ai"
      [] t = "Theory" -> "theory"
      [] t = "Search" -> "search"
      [] OTHER -> t

Lower(text) == [i \in 1..Len(text) |-> LowerTok(text[i])]

\* str.title() on one token
TitleTok(t) ==
    CASE t = "graph" -> "Graph"
      [] t = "databases" -> "Databases"
      [] OTHER -> t

Title(text) == [i \in 1..Len(text) |-> TitleTok(text[i])]

\* `phrase in text`
HasPhrase(text, phrase) ==
    \E i \in 1..(Len(text) - Len(phrase) + 1) :
        SubSeq(text, i, i + Len(phrase) - 1) = phrase

\* least index at which `phrase` starts in `text` (0 when absent)
FirstIndex(text, phrase) ==
    IF HasPhrase(text, phrase)
    THEN CHOOSE i \in 1..(Len(text) - Len(phrase) + 1) :
            /\ SubSeq(text, i, i + Len(phrase) - 1) = phrase
            /\ \A j \in 1..(i - 1) : SubSeq(text, j, j + Len(phrase) - 1) # phrase
    ELSE 0

Blank == " "

RECURSIVE LStrip(_)
LStrip(text) ==
    IF text # <<>> /\ Head(text) = Blank THEN LStrip(Tail(text)) ELSE text

RECURSIVE RStrip(_)
RStrip(text) ==
    IF text # <<>> /\ text[Len(text)] = Blank
    THEN RStrip(SubSeq(text, 1, Len(text) - 1))
    ELSE text

\* str.strip()
Strip(text) == RStrip(LStrip(text))

Max(a, b) == IF a >= b THEN a ELSE b

(***************************************************************************)
(* _is_quota_error and the handlers' second classification                 *)
(***************************************************************************)
IsQuotaError(err) ==
    LET text == Lower(err) IN
        \/ HasPhrase(text, <<"resource_exhausted">>)
        \/ HasPhrase(text, <<"quota", "exceeded">>)
        \/ HasPhrase(text, <<"429">>)
        \/ HasPhrase(text, <<"rate", "limit">>)
        \/ HasPhrase(text, <<"too", "many", "requests">>)

\* `"429" in str(e) or "ResourceExhausted" in str(e)` (case-sensitive)
LooksLikeQuota(err) ==
    \/ HasPhrase(err, <<"429">>)
    \/ HasPhrase(err, <<"ResourceExhausted">>)

(***************************************************************************)
(* _generate_content_with_retry                                            *)
(***************************************************************************)
\* int(float(m.group(1)) * 1000) for the number tokens used here
HintMs(tok) ==
    CASE tok = "0.5s" -> 500
      [] tok = "20s" -> 20000
      [] OTHER -> -1

\* re.search(r"retry in ([0-9]+(?:\.[0-9]+)?)s", txt, IGNORECASE): the hinted
\* delay in ms of the first match, -1 when there is no match
HintedMs(txt) ==
    LET low == Lower(txt)
        hits == {i \in 1..(Len(txt) - 2) :
                    /\ low[i] = "retry"
                    /\ low[i + 1] = "in"
                    /\ HintMs(txt[i + 2]) >= 0}
    IN  IF hits = {} THEN -1
        ELSE HintMs(txt[(CHOOSE i \in hits : \A j \in hits : i <= j) + 2])

\* delay_ms of lines 387-391
DelayMs(txt, wait_ms) ==
    IF HintedMs(txt) >= 0 THEN Max(wait_ms, HintedMs(txt)) ELSE wait_ms

\* what one call of the LLM client gives: a completion text, or an exception
LlmOk(content) == [ok |-> TRUE, content |-> content, err |-> <<>>]
LlmErr(text) == [ok |-> FALSE, content |-> "", err |-> text]

EvCall == [ev |-> "call", ms |-> 0]
EvSleep(ms) == [ev |-> "sleep", ms |-> ms]

\* `raise RuntimeError("LLM request failed unexpectedly.")` (line 397)
ErrUnexpected == <<"LLM", "request", "failed", "unexpectedly.">>

\* (mutant) a retry that does not honour the budget
ShouldRetry_IgnoresBudget(err, attempt, max_retries) == IsQuotaError(err)

\* line 384: retry only on a quota error while budget remains
ShouldRetry(err, attempt, max_retries) ==
    IsQuotaError(err) /\ attempt < max_retries

\* The loop of lines 369-397 from iteration `attempt` on; answers[k] is what
\* the k-th call of the client gives, last_error is <<>> for None.  Returns
\* the events (calls, sleeps) in order and the outcome: the returned text, or
\* the exception raised.
RECURSIVE RetryLoop(_, _, _, _, _, _)
RetryLoop(attempt, answers, max_retries, wait_ms, log, last_error) ==
    IF attempt >= max_retries + 1
    THEN [log |-> log, ok |-> FALSE, content |-> "",
          err |-> IF last_error # <<>> THEN last_error ELSE ErrUnexpected]
    ELSE LET a == answers[attempt + 1]
             called == Append(log, EvCall)
         IN  IF a.ok
             THEN [log |-> called, ok |-> TRUE, content |-> a.content, err |-> <<>>]
             ELSE IF ShouldRetry(a.err, attempt, max_retries)
                  THEN RetryLoop(attempt + 1, answers, max_retries, wait_ms,
                                 Append(called, EvSleep(DelayMs(a.err, wait_ms))),
                                 a.err)
                  ELSE [log |-> called, ok |-> FALSE, content |-> "", err |-> a.err]

GenerateContentWithRetry(answers, max_retries, wait_ms) ==
    RetryLoop(0, answers, max_retries, wait_ms, <<>>, <<>>)

\* defaults of the keyword arguments (lines 360-361)
DefaultMaxRetries == 1
DefaultWaitMs == 10000

\* error texts the LLM client can raise
ErrHttp429 == <<"Error", "code:", "429">>
ErrRateLimitHint == <<"Rate", "limit", "reached.", "Retry", "in", "20s">>
ErrQuotaShortHint == <<"Quota", "exceeded,", "retry", "in", "0.5s">>
ErrResourceExhausted == <<"ResourceExhausted", "raised">>
ErrConnection == <<"Connection", "error">>

LlmErrors ==
    {ErrHttp429, ErrRateLimitHint, ErrQuotaShortHint, ErrResourceExhausted, ErrConnection}

\* completion texts: a well-formed JSON object, text that is not JSON, the
\* empty object "{}" (also what `content or "{}"` gives for no content), and
\* an object whose strings are blank
LlmContents == {"json_ok", "json_invalid", "json_empty", "json_blank"}

LlmAnswers == {LlmOk(c) : c \in LlmContents} \cup {LlmErr(e) : e \in LlmErrors}

WaitChoices == {0, DefaultWaitMs, 30000}

RwIdle ==
    [phase |-> "idle", max_retries |-> 0, wait_ms |-> 0, answers |-> <<>>,
     log |-> <<>>, ok |-> FALSE, content |-> "", err |-> <<>>]

\* one call of _generate_content_with_retry(contents, max_retries=, wait_ms=)
CallWithRetry ==
    /\ rw.phase = "idle"
    /\ \E max_retries \in 0..MaxRetriesBound, wait_ms \in WaitChoices :
         \E answers \in [1..(max_retries + 1) -> LlmAnswers] :
            LET r == GenerateContentWithRetry(answers, max_retries, wait_ms) IN
            rw' = [phase |-> "done", max_retries |-> max_retries, wait_ms |-> wait_ms,
                   answers |-> answers, log |-> r.log, ok |-> r.ok,
                   content |-> r.content, err |-> r.err]
    /\ UNCHANGED <<config, schema, cache, issues, store, nextId, faults, resp, ww, inflight>>

(***************************************************************************)
(* Session data and the Airtable fields built from it                      *)
(***************************************************************************)
EmptyDict == <<>>

DictRemove(d, k) == [x \in DOMAIN d \ {k} |-> d[x]]

\* PATCH semantics of table.update: the given fields replace, the rest stay
DictMerge(d, e) ==
    [x \in DOMAIN d \cup DOMAIN e |-> IF x \in DOMAIN e THEN e[x] ELSE d[x]]

\* sep.join(texts)
RECURSIVE JoinTexts(_, _)
JoinTexts(texts, sep) ==
    IF texts = <<>> THEN <<>>
    ELSE IF Len(texts) = 1 THEN texts[1]
    ELSE texts[1] \o <<sep>> \o JoinTexts(Tail(texts), sep)

\* json.dumps / json.loads of a JSON-native value
JsonDumps(v) == <<"json", v>>
JsonLoads(s) == s[2]

\* the request bodies used
Topic == <<"graph", "databases">>
Subtopic == <<"Core", "Concepts">>

SubTopicEntry(id, title) ==
    [id |-> id, title |-> title, description |-> <<"about">> \o title]

\* what json.loads gives for the well-formed completion of the start prompt
LlmOutline ==
    [title |-> <<"Graph", "Databases">>,
     description |-> <<"llm", "overview">>,
     subTopics |-> <<SubTopicEntry("1", <<"Models">>), SubTopicEntry("2", <<"Query">>),
                     SubTopicEntry("3", <<"Storage">>), SubTopicEntry("4", <<"Scaling">>)>>]

\* _fallback_outline (lines 323-338)
FallbackOutline(topic) ==
    LET base == IF Strip(topic) # <<>> THEN Strip(topic) ELSE <<"Research", "Topic">> IN
    [title |-> Title(base),
     description |-> <<"fallback", "outline">>,
     subTopics |-> <<SubTopicEntry("1", <<"Core", "Concepts">>),
                     SubTopicEntry("2", <<"Current", "Landscape">>),
                     SubTopicEntry("3", <<"Practical", "Applications">>),
                     SubTopicEntry("4", <<"Risks", "and", "Constraints">>),
                     SubTopicEntry("5", <<"Future", "Outlook">>)>>]

\* _fallback_refinement (lines 340-345)
FallbackRefinement(subtopic, topic) ==
    <<"Fallback", "deep-dive", "for">> \o subtopic \o <<"under">> \o topic

SubTopicTitles(outline) ==
    LET subs == Get(outline, "subTopics", <<>>) IN
    [i \in 1..Len(subs) |-> Get(subs[i], "title", <<>>)]

\* session_payload of lines 600-605
NewSessionPayload(raw_data) ==
    [outline |-> raw_data, refinements |-> <<>>, summary |-> <<>>, tags |-> <<>>]

\* create_fields of lines 610-622
CreateFields(session_id, user_id, topic, raw_data, session_payload) ==
    LET subtopics_list == JoinTexts(SubTopicTitles(raw_data), ", ") IN
    [f \in {"Session ID", "User ID", "Topic", "Subtopics", "Initial Outline",
            "Summary", "Tags", "Search Text", "Status", "Data"} |->
        CASE f = "Session ID" -> session_id
          [] f = "User ID" -> user_id
          [] f = "Topic" -> topic
          [] f = "Subtopics" -> subtopics_list
          [] f = "Initial Outline" -> Get(raw_data, "description", <<>>)
          [] f = "Summary" -> <<>>
          [] f = "Tags" -> <<>>
          [] f = "Search Text" ->
                topic \o <<Blank>> \o subtopics_list \o <<Blank>>
                      \o Get(raw_data, "description", <<>>)
          [] f = "Status" -> "Initialized"
          [] f = "Data" -> JsonDumps(session_payload)]

\* the update fields of refine (lines 829-835)
RefineFields(data, outline, subtopic, insight) ==
    [f \in {"Data", "Summary", "Tags", "Search Text", "Status"} |->
        CASE f = "Data" -> JsonDumps(data)
          [] f = "Summary" -> Get(data, "summary", <<>>)
          [] f = "Tags" -> JoinTexts(Get(data, "tags", <<>>), ", ")
          [] f = "Search Text" ->
                Get(outline, "title", <<>>) \o <<Blank>> \o Get(outline, "description", <<>>)
                    \o <<Blank>> \o subtopic \o <<Blank>> \o insight
          [] f = "Status" -> "Refined"]

(***************************************************************************)
(* _strip_invalid_airtable_field and the resilient create / update         *)
(***************************************************************************)
\* the markers of lines 495-497 and 513 (the double quote that closes a field
\* name is the token Quote)
MarkerUnknown == "Unknown field name: "
MarkerComputed == "Field "
MarkerComputedSuffix == " cannot accept a value because the field is computed"
MarkerInvalidChoice == "INVALID_MULTIPLE_CHOICE_OPTIONS"
Quote == "'"

\* text.split(marker, 1)[1].split('"', 1)[0]
FieldAfter(text, marker) ==
    LET i == FirstIndex(text, <<marker>>) IN
    IF i + 1 <= Len(text) /\ text[i + 1] # Quote THEN text[i + 1] ELSE ""

\* which field lines 499-515 remove for this error text ("" for none)
FieldToStrip(text, payload) ==
    IF HasPhrase(text, <<MarkerUnknown>>)
       /\ FieldAfter(text, MarkerUnknown) \in DOMAIN payload
    THEN FieldAfter(text, MarkerUnknown)
    ELSE IF /\ HasPhrase(text, <<MarkerComputed>>)
            /\ HasPhrase(text, <<MarkerComputedSuffix>>)
            /\ FieldAfter(text, MarkerComputed) \in DOMAIN payload
    THEN FieldAfter(text, MarkerComputed)
    ELSE IF HasPhrase(text, <<MarkerInvalidChoice>>) /\ "Status" \in DOMAIN payload
    THEN "Status"
    ELSE ""

\* (mutant) a strip that reports success without removing anything
StripInvalid_KeepsField(err, payload) ==
    [removed |-> FieldToStrip(err, payload) # "", payload |-> payload]

\* _strip_invalid_airtable_field: the return value and the payload afterwards
StripInvalidAirtableField(err, payload) ==
    LET f == FieldToStrip(err, payload) IN
    IF f # "" THEN [removed |-> TRUE, payload |-> DictRemove(payload, f)]
    ELSE [removed |-> FALSE, payload |-> payload]

\* range(8) of lines 524 and 538
MaxAttempts == 8

\* RuntimeError of line 531
ErrCreateExhausted ==
    <<"Unable", "to", "create", "Airtable", "record", "after", "removing", "invalid", "fields.">>

\* (mutant) a last-resort payload that resends everything
MinimalFields_SendsAll(fields) == fields

\* the last-resort payload of line 547
MinimalFields(fields) ==
    [f \in {"Data", "Status"} |->
        IF f = "Data" THEN Get(fields, "Data", <<"json", EmptyDict>>)
        ELSE Get(fields, "Status", "Updated")]

\* what the store answers to one write: err = <<>> when it accepts; `rejected`
\* is the field the store objected to (known to the store, not to the code
\* unless the error text names it)
RespOk == [kind |-> "ok", err |-> <<>>, rejected |-> ""]
RespUnknown(f) == [kind |-> "unknown", err |-> <<MarkerUnknown, f, Quote>>, rejected |-> f]
RespComputed(f) ==
    [kind |-> "computed", err |-> <<MarkerComputed, f, MarkerComputedSuffix>>, rejected |-> f]
RespInvalidChoice(f) ==
    [kind |-> "invalid_choice", err |-> <<"422", MarkerInvalidChoice>>, rejected |-> f]
RespFail(e) == [kind |-> "failure", err |-> e, rejected |-> ""]

\* a run of _create_record_resilient / _update_record_resilient
WwIdle ==
    [phase |-> "idle", path |-> "", fields |-> EmptyDict, attempt_fields |-> EmptyDict,
     attempts |-> 0, sent |-> EmptyDict, lastKind |-> "", lastErr |-> <<>>,
     rejected |-> "", final |-> FALSE, written |-> EmptyDict, raised |-> <<>>]

WriteBegin(path, fields) ==
    [WwIdle EXCEPT !.phase = "loop", !.path = path, !.fields = fields,
                   !.attempt_fields = fields]

\* one iteration of the for loop (lines 524-530, 538-545): the write is sent
\* with attempt_fields and the store answers `response`
LoopAttempt(w, response) ==
    LET sentNow == [w EXCEPT !.attempts = w.attempts + 1, !.sent = w.attempt_fields,
                             !.lastKind = response.kind, !.lastErr = response.err,
                             !.rejected = response.rejected]
        strip == StripInvalidAirtableField(response.err, w.attempt_fields)
    IN  IF response.err = <<>>
        THEN [sentNow EXCEPT !.phase = "ok", !.written = w.attempt_fields]
        ELSE IF ~strip.removed
        THEN [sentNow EXCEPT !.phase = "raised", !.raised = response.err]
        ELSE IF w.attempts + 1 < MaxAttempts
        THEN [sentNow EXCEPT !.attempt_fields = strip.payload]
        ELSE IF w.path = "create"
        THEN [sentNow EXCEPT !.phase = "raised", !.attempt_fields = strip.payload,
                             !.raised = ErrCreateExhausted]
        ELSE [sentNow EXCEPT !.phase = "final", !.attempt_fields = strip.payload]

\* line 547: the last-resort update, outside any try
FinalWrite(w, response) ==
    LET sentNow == [w EXCEPT !.sent = MinimalFields(w.fields), !.final = TRUE,
                             !.lastKind = response.kind, !.lastErr = response.err,
                             !.rejected = response.rejected]
    IN  IF response.err = <<>>
        THEN [sentNow EXCEPT !.phase = "ok", !.written = MinimalFields(w.fields)]
        ELSE [sentNow EXCEPT !.phase = "raised", !.raised = response.err]

(***************************************************************************)
(* The write adapter against a store that answers each write as it likes   *)
(***************************************************************************)
\* fields the base may hold as single-select columns
SelectFields == {"Status", "Tags"}

StoreResponses(payload) ==
    {RespOk, RespFail(ErrConnection)}
        \cup {RespUnknown(f) : f \in DOMAIN payload}
        \cup {RespComputed(f) : f \in DOMAIN payload}
        \cup {RespInvalidChoice(f) : f \in DOMAIN payload \cap SelectFields}

SampleCreateFields ==
    CreateFields(<<"SESS", 1>>, "u1", Topic, LlmOutline, NewSessionPayload(LlmOutline))

SampleRefineFields ==
    RefineFields([NewSessionPayload(LlmOutline) EXCEPT
                     !.refinements = <<[subtopic |-> Subtopic, insight |-> <<"deep", "dive">>]>>],
                 LlmOutline, Subtopic, <<"deep", "dive">>)

\* create is called with create_fields; update with the five update fields,
\* and, as the function takes any dict, with a ten-field record
WritePayloads(path) ==
    IF path = "create" THEN {SampleCreateFields}
    ELSE {SampleRefineFields, SampleCreateFields}

WriteStart ==
    /\ ww.phase = "idle"
    /\ \E path \in {"create", "update"} :
         \E fields \in WritePayloads(path) : ww' = WriteBegin(path, fields)
    /\ UNCHANGED <<config, schema, cache, issues, store, nextId, faults, resp, rw, inflight>>

WriteAttempt ==
    /\ ww.phase = "loop"
    /\ \E r \in StoreResponses(ww.attempt_fields) : ww' = LoopAttempt(ww, r)
    /\ UNCHANGED <<config, schema, cache, issues, store, nextId, faults, resp, rw, inflight>>

WriteFinal ==
    /\ ww.phase = "final"
    /\ \E r \in StoreResponses(MinimalFields(ww.fields)) : ww' = FinalWrite(ww, r)
    /\ UNCHANGED <<config, schema, cache, issues, store, nextId, faults, resp, rw, inflight>>

(***************************************************************************)
(* The Airtable table: reads, and writes under a schema                    *)
(***************************************************************************)
Users == {"u1", "u2"}

\* AUTH_TOKENS (line 41): the static token set, or none
TokenMap == [t \in {"t1", "t2"} |-> IF t = "t1" THEN "u1" ELSE "u2"]
NoTokens == [t \in {} |-> ""]
\* DEFAULT_USER_ID (line 35)
DefaultUserId == "local-dev"

\* the Authorization headers requests carry: none, the two tokens of the
\* token set and a token that is not in it
Bearer == "Bearer "
Headers == {<<>>, <<Bearer, "t1">>, <<Bearer, Blank, "t2">>, <<Bearer, "bad">>}

\* (mutant) a resolution that takes the token for the user when it is unknown
ResolveUserId_TrustsToken(auth_header) ==
    LET token == Strip(Tail(auth_header)) IN
    IF DOMAIN config.tokens # {}
    THEN IF auth_header = <<>> \/ Head(auth_header) # Bearer
         THEN [code |-> 401, user_id |-> ""]
         ELSE IF Len(token) = 1 /\ token[1] \in DOMAIN config.tokens
         THEN [code |-> 200, user_id |-> config.tokens[token[1]]]
         ELSE [code |-> 200, user_id |-> DefaultUserId]
    ELSE [code |-> 200, user_id |-> DefaultUserId]

\* _resolve_user_id: [code, user_id], code 401 for the HTTPException raised
ResolveUserId(auth_header) ==
    LET token == Strip(Tail(auth_header)) IN
    IF DOMAIN config.tokens # {}
    THEN IF auth_header = <<>> \/ Head(auth_header) # Bearer
         THEN [code |-> 401, user_id |-> ""]
         ELSE IF Len(token) = 1 /\ token[1] \in DOMAIN config.tokens
         THEN [code |-> 200, user_id |-> config.tokens[token[1]]]
         ELSE [code |-> 401, user_id |-> ""]
    ELSE [code |-> 200, user_id |-> DefaultUserId]

\* ids: SESS-<hex> from os.urandom (line 598) and the store's record ids
SessId(n) == <<"SESS", n>>
RecId(n) == <<"rec", n>>
NoId == <<"none", 0>>
\* a session id no start has handed out
UnknownId == <<"SESS", 0>>

NoRecord == [id |-> NoId, fields |-> EmptyDict]

\* what the base accepts: fields it does not have, fields it computes, the
\* value it computes for Session ID, single-select columns that reject the
\* value written, and a failure of the service as a whole (<<>> for none)
Schema(unknown, computed, sessValue, select, fail) ==
    [unknown |-> unknown, computed |-> computed, sessValue |-> sessValue,
     select |-> select, fail |-> fail]

ErrThrottled == <<"429", "Too", "Many", "Requests">>

SchemaOk == Schema({}, {}, "given", {}, <<>>)

\* the bases the table is deployed on: one with every column as the code
\* expects it, one whose Status is a single-select without the values the
\* code writes, one whose Session ID is a formula column
BaseSchemas ==
    {SchemaOk,
     Schema({}, {}, "given", {"Status"}, <<>>),
     Schema({}, {"Session ID"}, "blank", {}, <<>>)}

\* what a write request meets: the service up (<<>>), or failing
Outages == {<<>>, ErrConnection, ErrThrottled}
DuringOutage(sch, outage) == [sch EXCEPT !.fail = outage]

FieldOrder ==
    <<"Session ID", "User ID", "Topic", "Subtopics", "Initial Outline", "Summary", "Tags",
      "Search Text", "Status", "Data">>

FirstField(S) ==
    FieldOrder[CHOOSE i \in 1..Len(FieldOrder) :
                  /\ FieldOrder[i] \in S
                  /\ \A j \in 1..(i - 1) : FieldOrder[j] \notin S]

\* the answer of table.create / table.update to a payload
StoreRespond(sch, payload) ==
    IF sch.fail # <<>> THEN RespFail(sch.fail)
    ELSE IF DOMAIN payload \cap sch.unknown # {}
    THEN RespUnknown(FirstField(DOMAIN payload \cap sch.unknown))
    ELSE IF DOMAIN payload \cap sch.computed # {}
    THEN RespComputed(FirstField(DOMAIN payload \cap sch.computed))
    ELSE IF DOMAIN payload \cap sch.select # {}
    THEN RespInvalidChoice(FirstField(DOMAIN payload \cap sch.select))
    ELSE RespOk

\* _create_record_resilient / _update_record_resilient run to their end
RECURSIVE ResilientRun(_, _)
ResilientRun(w, sch) ==
    IF w.phase = "loop"
    THEN ResilientRun(LoopAttempt(w, StoreRespond(sch, w.attempt_fields)), sch)
    ELSE IF w.phase = "final"
    THEN FinalWrite(w, StoreRespond(sch, MinimalFields(w.fields)))
    ELSE w

CreateRecordResilient(fields, sch) == ResilientRun(WriteBegin("create", fields), sch)
UpdateRecordResilient(fields, sch) == ResilientRun(WriteBegin("update", fields), sch)

\* the row table.create makes of an accepted payload
CreatedRecord(n, written, sch) ==
    LET computedId ==
            IF "Session ID" \in sch.computed /\ sch.sessValue = "recid"
            THEN [f \in {"Session ID"} |-> RecId(n)]
            ELSE EmptyDict
    IN  [id |-> RecId(n), fields |-> DictMerge(written, computedId)]

\* the table after table.update(record_id, written)
UpdatedStore(st, record_id, written) ==
    {IF r.id = record_id THEN [r EXCEPT !.fields = DictMerge(r.fields, written)] ELSE r :
        r \in st}

ErrRead == <<"Read", "timed", "out">>

\* records[0] of a lookup: the table lists its rows in the order they were
\* created
FirstRecord(records) == CHOOSE r \in records : \A q \in records : r.id[2] <= q.id[2]

\* (mutant) a store lookup by session id alone
FindSessionRecord_IgnoresUser(session_id, user_id, read_err) ==
    IF ~config.table THEN [raised |-> <<>>, record |-> NoRecord]
    ELSE IF read_err # <<>> THEN [raised |-> read_err, record |-> NoRecord]
    ELSE LET records == {r \in store :
                            \/ Get(r.fields, "Session ID", NoId) = session_id
                            \/ r.id = session_id}
         IN  IF records # {} THEN [raised |-> <<>>, record |-> FirstRecord(records)]
             ELSE [raised |-> <<>>, record |-> NoRecord]

\* _find_session_record: [raised, record]; read_err is the error table.all
\* raises (<<>> for none), a failing table.get is swallowed
FindSessionRecord(session_id, user_id, read_err) ==
    IF ~config.table THEN [raised |-> <<>>, record |-> NoRecord]
    ELSE IF read_err # <<>> THEN [raised |-> read_err, record |-> NoRecord]
    ELSE LET records == {r \in store :
                            /\ Get(r.fields, "Session ID", NoId) = session_id
                            /\ Get(r.fields, "User ID", "") = user_id}
             byId == {r \in store : r.id = session_id /\ Get(r.fields, "User ID", "") = user_id}
         IN  IF records # {} THEN [raised |-> <<>>, record |-> FirstRecord(records)]
             ELSE IF byId # {} THEN [raised |-> <<>>, record |-> FirstRecord(byId)]
             ELSE [raised |-> <<>>, record |-> NoRecord]

\* _parse_data_blob
ParseDataBlob(fields) ==
    LET default_outline ==
            [title |-> Get(fields, "Topic", <<"Untitled">>),
             description |-> Get(fields, "Initial Outline", <<>>),
             subTopics |-> <<>>]
    IN  IF "Data" \notin DOMAIN fields
        THEN [outline |-> default_outline, refinements |-> <<>>, summary |-> <<>>, tags |-> <<>>]
        ELSE LET parsed == JsonLoads(fields["Data"]) IN
             IF "outline" \in DOMAIN parsed
             THEN [outline |-> Get(parsed, "outline", default_outline),
                   refinements |-> Get(parsed, "refinements", <<>>),
                   summary |-> Get(parsed, "summary", <<>>),
                   tags |-> Get(parsed, "tags", <<>>)]
             ELSE [outline |-> parsed, refinements |-> <<>>, summary |-> <<>>, tags |-> <<>>]

(***************************************************************************)
(* Session cache and provider issues                                       *)
(***************************************************************************)
NoItem == [user_id |-> "", data |-> EmptyDict]

\* (mutant) a cache lookup by session id alone
CacheGet_IgnoresOwner(session_id, user_id) ==
    IF session_id \notin DOMAIN cache THEN NoItem ELSE cache[session_id]

\* _cache_get: NoItem for None
CacheGet(session_id, user_id) ==
    IF session_id \notin DOMAIN cache THEN NoItem
    ELSE IF cache[session_id].user_id # user_id THEN NoItem
    ELSE cache[session_id]

\* (mutant) a cache of one entry
CachePut_OneEntry(c, session_id, user_id, data) ==
    [k \in {session_id} |-> [user_id |-> user_id, data |-> data]]

\* _cache_put
CachePut(c, session_id, user_id, data) ==
    DictMerge(c, [k \in {session_id} |-> [user_id |-> user_id, data |-> data]])

\* _set_provider_issue / _clear_provider_issue (the message and the time are
\* left out)
SetProviderIssue(iss, provider, kind) ==
    DictMerge(iss, [p \in {provider} |-> [kind |-> kind]])
ClearProviderIssue(iss, provider) == DictRemove(iss, provider)

(***************************************************************************)
(* The LLM step shared by start, refine and finalize                       *)
(***************************************************************************)
ErrJsonDecode == <<"Expecting", "value">>

\* str(HTTPException(status_code, detail))
HttpErrText(code) == <<code, ":", "detail">>

\* the scripts of client answers a handler (max_retries=1) can see: an answer
\* at once, an answer after one quota error, or an error
HandlerErrors == {ErrHttp429, ErrResourceExhausted, ErrConnection}
NominalScript == [i \in 1..2 |-> LlmOk("json_ok")]
AnswerScripts(contents) ==
    {[i \in 1..2 |-> LlmOk(c)] : c \in contents}
        \cup {[i \in 1..2 |-> IF i = 1 THEN LlmErr(ErrHttp429) ELSE LlmOk("json_ok")]}
        \cup {[i \in 1..2 |-> LlmErr(e)] : e \in HandlerErrors}

\* lines 572-578 / 788-799 / 875-885: the call and json.loads; err is the
\* exception the inner `except Exception as llm_error` catches (<<>> for none)
LlmCall(answers) ==
    LET r == GenerateContentWithRetry(answers, DefaultMaxRetries, DefaultWaitMs)
        calls == Cardinality({i \in 1..Len(r.log) : r.log[i].ev = "call"})
    IN  [calls |-> calls,
         content |-> r.content,
         err |-> IF ~r.ok THEN r.err
                 ELSE IF r.content = "json_invalid" THEN ErrJsonDecode
                 ELSE <<>>]

\* how the inner except clause of the three handlers disposes of llm_error
LlmDisposition(err) ==
    IF err = <<>> THEN "ok"
    ELSE IF IsQuotaError(err) /\ config.fallback THEN "fallback"
    ELSE IF IsQuotaError(err) THEN "quota"
    ELSE "error"

\* the provider issues after the LLM step
IssuesAfterLlm(iss, disposition) ==
    CASE disposition = "ok" -> ClearProviderIssue(iss, "llm")
      [] disposition = "fallback" -> SetProviderIssue(iss, "llm", "quota")
      [] disposition = "quota" -> SetProviderIssue(iss, "llm", "quota")
      [] OTHER -> SetProviderIssue(iss, "llm", "error")

\* the last request: what was asked (auth is its Authorization header), the status code and body answered, and
\* what the handler did on the way (disposition of the LLM step, outcome of
\* the store read and of the store write, where the session was taken from);
\* req is, for a finalize request, payload.tags, the completion the LLM gave
\* and whether the session had a summary already
NoRequest == [tags |-> <<>>, content |-> "", again |-> FALSE]

Response(op, user, sid, code, body, llm, read, write, src) ==
    [op |-> op, user |-> user, sid |-> sid, code |-> code, body |-> body,
     llm |-> llm, read |-> read, write |-> write, src |-> src, req |-> NoRequest,
     auth |-> <<>>]

RespNone == Response("none", "", NoId, 0, EmptyDict, "none", "none", "none", "none")

(***************************************************************************)
(* Handlers.  Each gives the state after the request as a record           *)
(* [cache, issues, store, nextId, resp].                                   *)
(***************************************************************************)
After(c, iss, st, n, r) == [cache |-> c, issues |-> iss, store |-> st, nextId |-> n, resp |-> r]

\* ResearchOutline.model_validate: the three keys are required
ValidOutline(outline) == {"title", "description", "subTopics"} \subseteq DOMAIN outline

\* `except Exception as e` of start (lines 645-657): status code and issues
StartOuterExcept(iss, err) ==
    IF LooksLikeQuota(err)
    THEN [code |-> 429, issues |-> SetProviderIssue(iss, "llm", "quota")]
    ELSE [code |-> 500, issues |-> iss]

\* `except Exception as e` of refine and finalize (lines 842-847, 931-936)
OuterExcept(iss, err) ==
    IF LooksLikeQuota(err)
    THEN [code |-> 429, issues |-> SetProviderIssue(iss, "llm", "quota")]
    ELSE [code |-> 500, issues |-> SetProviderIssue(iss, "airtable", "write_error")]

StartContents == {"json_ok", "json_invalid"}

\* json.loads of the completion of the start prompt
ParseStart(content) == IF content = "json_ok" THEN LlmOutline ELSE EmptyDict

ErrValidation == <<"3", "validation", "errors", "for", "ResearchOutline">>

\* lines 624-629: the id start returns after a successful create
PersistedSessionId(rec) ==
    IF Get(rec.fields, "Session ID", NoId) # NoId THEN rec.fields["Session ID"] ELSE rec.id

\* the LLM step as the handlers see it: the completion, the error caught by
\* the inner except clause, and what that clause does with it
LlmDisposed(l) == [content |-> l.content, err |-> l.err, d |-> LlmDisposition(l.err)]
LlmStep(answers) == LlmDisposed(LlmCall(answers))

\* lines 607-632 of start: the outcome of the create, [session_id, store,
\* issues, write], for the result w of _create_record_resilient and the row
\* rec it made
StartStored(gen, iss1, w, rec) ==
    IF config.table /\ w.phase = "ok"
    THEN [session_id |-> PersistedSessionId(rec), store |-> store \cup {rec},
          issues |-> iss1, write |-> "ok"]
    ELSE IF config.table
    THEN [session_id |-> SessId(gen), store |-> store,
          issues |-> SetProviderIssue(iss1, "airtable", "write_error"), write |-> "failed"]
    ELSE [session_id |-> SessId(gen), store |-> store, issues |-> iss1, write |-> "none"]

\* a start that raised into the outer except clause (lines 645-657), with the
\* cache and the store as the handler left them
StartRaised(user_id, d, c, p, o) ==
    After(c, o.issues, p.store, p.nextId,
          Response("start", user_id, p.session_id, o.code, EmptyDict, d, "none", p.write, "none"))

\* lines 633-640 of start: _cache_put and the response, whose outline is
\* validated as it is built
StartReturn(user_id, d, raw_data, c2, p) ==
    IF ValidOutline(raw_data)
    THEN After(c2, p.issues, p.store, nextId + 1,
               Response("start", user_id, p.session_id, 200,
                        [sessionId |-> p.session_id, outline |-> raw_data,
                         tags |-> <<>>, progress |-> 50],
                        d, "none", p.write, "none"))
    ELSE StartRaised(user_id, d, c2, [p EXCEPT !.nextId = nextId + 1],
                     StartOuterExcept(p.issues, ErrValidation))

\* (mutant) a start that leaves the session to the store
StartCached_StoreOnly(user_id, d, raw_data, session_payload, p) ==
    StartReturn(user_id, d, raw_data, cache,
                [session_id |-> p.session_id, store |-> p.store, issues |-> p.issues,
                 write |-> p.write, nextId |-> nextId])

StartCached(user_id, d, raw_data, session_payload, p) ==
    StartReturn(user_id, d, raw_data,
                CachePut(cache, p.session_id, user_id, session_payload),
                [session_id |-> p.session_id, store |-> p.store, issues |-> p.issues,
                 write |-> p.write, nextId |-> nextId])

\* lines 597-632 of start: the id, the payload, the create
StartCreate(user_id, gen, d, raw_data, session_payload, iss1, w, sch) ==
    StartCached(user_id, d, raw_data, session_payload,
                StartStored(gen, iss1, w, CreatedRecord(nextId + 1, w.written, sch)))

StartPersist(user_id, gen, d, iss1, raw_data, session_payload, sch) ==
    StartCreate(user_id, gen, d, raw_data, session_payload, iss1,
                CreateRecordResilient(
                    CreateFields(SessId(gen), user_id, Topic, raw_data, session_payload),
                    sch),
                sch)

NothingStored == [session_id |-> NoId, store |-> store, write |-> "none", nextId |-> nextId]

\* lines 570-595 of start: what follows the LLM step
StartAfterLlm(user_id, gen, llm, iss1, raw_data, sch) ==
    IF llm.d = "quota"
    THEN StartRaised(user_id, llm.d, cache, NothingStored,
                     StartOuterExcept(iss1, HttpErrText("429")))
    ELSE IF llm.d = "error"
    THEN StartRaised(user_id, llm.d, cache, NothingStored, StartOuterExcept(iss1, llm.err))
    ELSE StartPersist(user_id, gen, llm.d, iss1, raw_data, NewSessionPayload(raw_data), sch)

StartOutline(user_id, gen, llm, sch) ==
    StartAfterLlm(user_id, gen, llm, IssuesAfterLlm(issues, llm.d),
                  IF llm.d = "ok" THEN ParseStart(llm.content) ELSE FallbackOutline(Topic),
                  sch)

\* start_research (lines 566-657) for payload.topic = Topic; gen numbers the
\* id that os.urandom gives the session (line 598)
StartResearch(user_id, gen, answers, sch) ==
    StartOutline(user_id, gen, LlmStep(answers), sch)

\* the session a request works on: from the cache entry when there is one,
\* else from the record (lines 779-784, 861-866)
SessionData(cached, record) ==
    IF cached # NoItem THEN cached.data ELSE ParseDataBlob(record.fields)

\* where the handler took the session from, once it has one
SourceOf(cached, record) ==
    IF cached # NoItem THEN "cache" ELSE IF record # NoRecord THEN "store" ELSE "none"

ReadOutcome(found) ==
    IF ~config.table THEN "none" ELSE IF found.raised # <<>> THEN "failed" ELSE "ok"

\* lines 774-785 / 856-868: what refine and finalize resolve the session to
Resolved(cached, found) ==
    [raised |-> found.raised,
     record |-> found.record,
     read |-> ReadOutcome(found),
     src |-> IF found.raised # <<>> THEN "none" ELSE SourceOf(cached, found.record),
     data |-> SessionData(cached, found.record)]

Resolution(session_id, user_id, read_err) ==
    Resolved(CacheGet(session_id, user_id), FindSessionRecord(session_id, user_id, read_err))

\* a refine or finalize that raised into the outer except clause (lines
\* 840-847, 929-936), or raised an HTTPException through it, with the cache as
\* the handler left it
Raised(op, session_id, user_id, res, c, llm, write, o) ==
    After(c, o.issues, store, nextId,
          Response(op, user_id, session_id, o.code, EmptyDict, llm, res.read, write, res.src))

HttpRaised(code, iss) == [code |-> code, issues |-> iss]

\* lines 823-837 / 913-927: _cache_put, and the update of the record when
\* there is one; w is the result of _update_record_resilient
SaveSession(op, session_id, user_id, res, d, iss1, c2, body, w) ==
    IF res.record = NoRecord
    THEN After(c2, iss1, store, nextId,
               Response(op, user_id, session_id, 200, body, d, res.read, "none", res.src))
    ELSE IF w.phase = "ok"
    THEN After(c2, ClearProviderIssue(iss1, "airtable"),
               UpdatedStore(store, res.record.id, w.written), nextId,
               Response(op, user_id, session_id, 200, body, d, res.read, "ok", res.src))
    ELSE Raised(op, session_id, user_id, res, c2, d, "failed", OuterExcept(iss1, w.raised))

RefineContents == {"json_ok", "json_invalid", "json_empty"}

\* json.loads of the completion of the refinement prompt
ParseRefine(content) ==
    IF content = "json_ok" THEN [insight |-> <<Blank, "deep", "dive">>] ELSE EmptyDict

\* (mutant) a refinement that replaces the list
AppendRefinement_Replaces(data, entry) == [data EXCEPT !.refinements = <<entry>>]

\* lines 815-821
AppendRefinement(data, entry) == [data EXCEPT !.refinements = Append(@, entry)]

RefineSave(session_id, user_id, res, d, iss1, insight, data2, sch) ==
    SaveSession("refine", session_id, user_id, res, d, iss1,
                CachePut(cache, session_id, user_id, data2),
                [sessionId |-> session_id, subtopic |-> Subtopic, insight |-> insight],
                UpdateRecordResilient(RefineFields(data2, res.data.outline, Subtopic, insight),
                                      sch))

\* lines 812-821 of refine
RefineInsight(session_id, user_id, res, d, iss1, insight, sch) ==
    IF insight = <<>>
    THEN Raised("refine", session_id, user_id, res, cache, d, "none", HttpRaised(500, iss1))
    ELSE RefineSave(session_id, user_id, res, d, iss1, insight,
                    AppendRefinement(res.data, [subtopic |-> Subtopic, insight |-> insight]),
                    sch)

\* lines 774-811 of refine
RefineResolved(session_id, user_id, res, llm, sch) ==
    IF res.raised # <<>>
    THEN Raised("refine", session_id, user_id, res, cache, "none", "none",
                OuterExcept(issues, res.raised))
    ELSE IF res.src = "none"
    THEN Raised("refine", session_id, user_id, res, cache, "none", "none",
                HttpRaised(404, issues))
    ELSE IF llm.d = "quota"
    THEN Raised("refine", session_id, user_id, res, cache, llm.d, "none",
                HttpRaised(429, IssuesAfterLlm(issues, llm.d)))
    ELSE IF llm.d = "error"
    THEN Raised("refine", session_id, user_id, res, cache, llm.d, "none",
                OuterExcept(IssuesAfterLlm(issues, llm.d), llm.err))
    ELSE RefineInsight(session_id, user_id, res, llm.d, IssuesAfterLlm(issues, llm.d),
                       IF llm.d = "ok"
                       THEN Strip(Get(ParseRefine(llm.content), "insight", <<>>))
                       ELSE FallbackRefinement(Subtopic,
                                               Get(res.data.outline, "title", Subtopic)),
                       sch)

\* refine_research (lines 769-847) for payload.subtopic = Subtopic
RefineResearch(session_id, user_id, read_err, answers, sch) ==
    RefineResolved(session_id, user_id, Resolution(session_id, user_id, read_err),
                   LlmStep(answers), sch)

\* completions of the finalize prompt: json_notags has a summary and no tags
FinalizeContents == {"json_ok", "json_invalid", "json_empty", "json_notags"}

\* json.loads of the completion of the finalize prompt
ParseFinalize(content) ==
    IF content = "json_ok"
    THEN [summary |-> <<"final", "synthesis", Blank>>,
          tags |-> << <<"AI">>, <<"Graphs", Blank>>, <<Blank>>, <<"AI">> >>]
    ELSE IF content = "json_notags"
    THEN [summary |-> <<"final", "synthesis", Blank>>]
    ELSE EmptyDict

\* [str(t).strip() for t in tags if str(t).strip()]
RECURSIVE StripTags(_)
StripTags(tags) ==
    IF tags = <<>> THEN <<>>
    ELSE IF Strip(Head(tags)) # <<>> THEN <<Strip(Head(tags))>> \o StripTags(Tail(tags))
    ELSE StripTags(Tail(tags))

\* (mutant) a tag list stored as it was chosen
DedupKeepFirst_KeepsAll(tags, seen) == tags

\* list(dict.fromkeys(tags)): the first occurrence of each, in order
RECURSIVE DedupKeepFirst(_, _)
DedupKeepFirst(tags, seen) ==
    IF tags = <<>> THEN <<>>
    ELSE IF Head(tags) \in seen THEN DedupKeepFirst(Tail(tags), seen)
    ELSE <<Head(tags)>> \o DedupKeepFirst(Tail(tags), seen \cup {Head(tags)})

FirstN(seq, n) == SubSeq(seq, 1, IF Len(seq) < n THEN Len(seq) ELSE n)

\* [t for t in tags if t]
RECURSIVE NonEmpty(_)
NonEmpty(texts) ==
    IF texts = <<>> THEN <<>>
    ELSE IF Head(texts) # <<>> THEN <<Head(texts)>> \o NonEmpty(Tail(texts))
    ELSE NonEmpty(Tail(texts))

\* the first five subtopic titles, blanks dropped (lines 353-354, 904-905)
TitleTags(outline) == NonEmpty(FirstN(SubTopicTitles(outline), 5))

OrElse(tags, default) == IF tags # <<>> THEN tags ELSE default

\* _fallback_finalize (lines 347-355)
FallbackFinalize(outline, refinements) ==
    [summary |-> <<"fallback", "summary", "of">>
                    \o Get(outline, "title", <<"Untitled", "Topic">>),
     tags |-> OrElse(TitleTags(outline), << <<"Research">>, <<"Fallback">>, <<"Analysis">> >>)]

\* lines 891-893: summary and tags of the parsed completion
LlmFinalize(parsed) ==
    [summary |-> Strip(Get(parsed, "summary", <<>>)),
     tags |-> StripTags(Get(parsed, "tags", <<>>))]

\* the update fields of finalize (lines 919-925)
FinalizeFields(data, outline, summary) ==
    [f \in {"Data", "Summary", "Tags", "Search Text", "Status"} |->
        CASE f = "Data" -> JsonDumps(data)
          [] f = "Summary" -> summary
          [] f = "Tags" -> JoinTexts(data.tags, ", ")
          [] f = "Search Text" ->
                Get(outline, "title", <<>>) \o <<Blank>> \o Get(outline, "description", <<>>)
                    \o <<Blank>> \o summary \o <<Blank>> \o JoinTexts(data.tags, Blank)
          [] f = "Status" -> "Finalized"]

\* payload.tags of the finalize requests made: none, and a list with a blank
\* entry and a repeated one
TagRequests == {<<>>, << <<"Mine">>, <<Blank>>, <<"Mine">> >>}

FinalizeSave(session_id, user_id, res, d, iss1, summary, data2, sch) ==
    SaveSession("finalize", session_id, user_id, res, d, iss1,
                CachePut(cache, session_id, user_id, data2),
                [sessionId |-> session_id, summary |-> summary, tags |-> data2.tags],
                UpdateRecordResilient(FinalizeFields(data2, res.data.outline, summary), sch))

\* (mutant) a finalize that adds to the summary and the tags it finds
FinalizeTagged_Accumulates(session_id, user_id, res, d, iss1, summary, final_tags, sch) ==
    FinalizeSave(session_id, user_id, res, d, iss1, res.data.summary \o summary,
                 [res.data EXCEPT !.summary = @ \o summary,
                                  !.tags = DedupKeepFirst(@ \o final_tags, {})],
                 sch)

\* lines 907-911 of finalize: tags are the derived ones here
FinalizeTagged(session_id, user_id, res, d, iss1, summary, final_tags, sch) ==
    FinalizeSave(session_id, user_id, res, d, iss1, summary,
                 [res.data EXCEPT !.summary = summary,
                                  !.tags = DedupKeepFirst(final_tags, {})],
                 sch)

\* lines 901-908 of finalize
FinalizeDerived(session_id, user_id, req_tags, res, d, iss1, derived, sch) ==
    IF derived.summary = <<>>
    THEN Raised("finalize", session_id, user_id, res, cache, d, "none", HttpRaised(500, iss1))
    ELSE FinalizeTagged(session_id, user_id, res, d, iss1, derived.summary,
                        OrElse(StripTags(req_tags),
                               OrElse(derived.tags, TitleTags(res.data.outline))),
                        sch)

\* lines 856-900 of finalize
FinalizeResolved(session_id, user_id, req_tags, res, llm, sch) ==
    IF res.raised # <<>>
    THEN Raised("finalize", session_id, user_id, res, cache, "none", "none",
                OuterExcept(issues, res.raised))
    ELSE IF res.src = "none"
    THEN Raised("finalize", session_id, user_id, res, cache, "none", "none",
                HttpRaised(404, issues))
    ELSE IF llm.d = "quota"
    THEN Raised("finalize", session_id, user_id, res, cache, llm.d, "none",
                HttpRaised(429, IssuesAfterLlm(issues, llm.d)))
    ELSE IF llm.d = "error"
    THEN Raised("finalize", session_id, user_id, res, cache, llm.d, "none",
                OuterExcept(IssuesAfterLlm(issues, llm.d), llm.err))
    ELSE FinalizeDerived(session_id, user_id, req_tags, res, llm.d,
                         IssuesAfterLlm(issues, llm.d),
                         IF llm.d = "ok" THEN LlmFinalize(ParseFinalize(llm.content))
                         ELSE FallbackFinalize(res.data.outline, res.data.refinements),
                         sch)

\* finalize_research (lines 851-936)
FinalizeResearch(session_id, user_id, req_tags, read_err, answers, sch) ==
    FinalizeResolved(session_id, user_id, req_tags,
                     Resolution(session_id, user_id, read_err), LlmStep(answers), sch)

\* SessionDetail of lines 739-746 / 754-761
SessionDetail(session_id, data) ==
    [sessionId |-> session_id, outline |-> data.outline, refinements |-> data.refinements,
     summary |-> data.summary, tags |-> data.tags]

\* get_session (lines 733-765)
GetSessionHandler(session_id, user_id, read_err) ==
    LET cached == CacheGet(session_id, user_id)
        found == FindSessionRecord(session_id, user_id, read_err)
        record == found.record
        data == ParseDataBlob(record.fields)
        answer(code, b, read, src) ==
            After(cache, issues, store, nextId,
                  Response("get", user_id, session_id, code, b, "none", read, "none", src))
    IN  IF cached # NoItem
        THEN IF ValidOutline(Get(cached.data, "outline", EmptyDict))
             THEN answer(200, SessionDetail(session_id, cached.data), "none", "cache")
             ELSE answer(500, EmptyDict, "none", "cache")
        ELSE IF ~config.table THEN answer(503, EmptyDict, "none", "none")
        ELSE IF found.raised # <<>> THEN answer(500, EmptyDict, "failed", "none")
        ELSE IF record = NoRecord THEN answer(404, EmptyDict, "ok", "none")
        ELSE IF ValidOutline(data.outline)
        THEN answer(200, SessionDetail(PersistedSessionId(record), data), "ok", "store")
        ELSE answer(500, EmptyDict, "ok", "store")

\* what export_session_pdf writes on the pages (lines 948-951): the summary
\* line is the description of the outline when there is no summary
PdfLines(session_id, data) ==
    [sessionId |-> session_id, outline |-> data.outline, refinements |-> data.refinements,
     summary |-> IF data.summary # <<>> THEN data.summary
                 ELSE Get(data.outline, "description", <<>>),
     tags |-> data.tags]

\* export_session_pdf (lines 939-1000)
ExportSessionPdf(session_id, user_id, read_err) ==
    LET found == FindSessionRecord(session_id, user_id, read_err)
        record == found.record
        data == ParseDataBlob(record.fields)
        answer(code, b, read, src) ==
            After(cache, issues, store, nextId,
                  Response("pdf", user_id, session_id, code, b, "none", read, "none", src))
    IN  IF ~config.table THEN answer(503, EmptyDict, "none", "none")
        ELSE IF found.raised # <<>> THEN answer(500, EmptyDict, "failed", "none")
        ELSE IF record = NoRecord THEN answer(404, EmptyDict, "ok", "none")
        ELSE answer(200, PdfLines(session_id, data), "ok", "store")

\* the state a handler leaves and its response; `met` is the number of
\* providers that failed the request
Commit(post, met) ==
    /\ resp = RespNone
    /\ faults + met <= MaxFaults
    /\ cache' = post.cache
    /\ issues' = post.issues
    /\ store' = post.store
    /\ nextId' = post.nextId
    /\ resp' = post.resp
    /\ faults' = faults + met
    /\ UNCHANGED <<config, schema, rw, ww>>

\* a request handled with no other request in flight: the handler runs from
\* the arrival of its request to its response
Apply(post, met) == Commit(post, met) /\ UNCHANGED inflight

\* the request as it was made, kept with its response
Requested(post, req_tags, content, again) ==
    [post EXCEPT !.resp.req = [tags |-> req_tags, content |-> content, again |-> again]]

\* what the providers can do to a request that gets as far as calling them
ScriptsIf(calls, contents) == IF calls THEN AnswerScripts(contents) ELSE {NominalScript}
OutagesIf(writes) == IF writes THEN Outages ELSE {<<>>}
ReadsIf(reads) == IF reads THEN {<<>>, ErrRead, ErrThrottled} ELSE {<<>>}
Met(answers, outage, read_err) ==
    (IF answers # NominalScript THEN 1 ELSE 0) + (IF outage # <<>> THEN 1 ELSE 0)
        + (IF read_err # <<>> THEN 1 ELSE 0)

\* the request as it was made, kept with its response
Sent(post, auth_header) == [post EXCEPT !.resp.auth = auth_header]

\* the HTTPException of _resolve_user_id leaves the handler before its try
\* block, and before the handler looks at the session id
Unauthorized(op) ==
    After(cache, issues, store, nextId,
          Response(op, "", NoId, 401, EmptyDict, "none", "none", "none", "none"))

\* whether _resolve_user_id is reached and raises: export and history call
\* _require_table before it (lines 940 and 661, 680)
Denied(auth_header, table_first) ==
    /\ ResolveUserId(auth_header).code = 401
    /\ ~(table_first /\ ~config.table)

UserOf(auth_header) == ResolveUserId(auth_header).user_id

\* the users are interchangeable: the one who starts the first session is
\* the one with token t1
StartHeaders == IF nextId = 0 THEN Headers \ {<<Bearer, Blank, "t2">>} ELSE Headers

\* start when os.urandom gives an id it has not given before
Start ==
    /\ nextId < MaxSessions
    /\ \E auth_header \in StartHeaders :
         IF Denied(auth_header, FALSE)
         THEN Apply(Sent(Unauthorized("start"), auth_header), 0)
         ELSE \E answers \in AnswerScripts(StartContents) :
                \E outage \in OutagesIf(config.table
                                        /\ LlmDisposition(LlmCall(answers).err)
                                               \in {"ok", "fallback"}) :
                   Apply(Sent(StartResearch(UserOf(auth_header), nextId + 1, answers,
                                            DuringOutage(schema, outage)),
                              auth_header),
                         Met(answers, outage, <<>>))

\* start when os.urandom may give an id it has given before
StartAny ==
    /\ nextId < MaxStarts
    /\ \E auth_header \in StartHeaders :
         IF Denied(auth_header, FALSE)
         THEN Apply(Sent(Unauthorized("start"), auth_header), 0)
         ELSE \E gen \in 1..(nextId + 1), answers \in AnswerScripts(StartContents) :
                \E outage \in OutagesIf(config.table
                                        /\ LlmDisposition(LlmCall(answers).err)
                                               \in {"ok", "fallback"}) :
                   Apply(Sent(StartResearch(UserOf(auth_header), gen, answers,
                                            DuringOutage(schema, outage)),
                              auth_header),
                         Met(answers, outage, <<>>))

\* the ids a client can send: those start has handed out, and one it has not
RequestIds == DOMAIN cache \cup {PersistedSessionId(r) : r \in store} \cup {UnknownId}

\* whether refine / finalize by user_id on session_id gets as far as the LLM
Resolves(session_id, user_id, read_err) ==
    /\ FindSessionRecord(session_id, user_id, read_err).raised = <<>>
    /\ \/ CacheGet(session_id, user_id) # NoItem
       \/ FindSessionRecord(session_id, user_id, read_err).record # NoRecord

HasRecord(session_id, user_id, read_err) ==
    FindSessionRecord(session_id, user_id, read_err).record # NoRecord

ResolvedData(session_id, user_id, read_err) ==
    SessionData(CacheGet(session_id, user_id),
                FindSessionRecord(session_id, user_id, read_err).record)

RefineBy(session_id, auth_header, user_id) ==
    \E read_err \in ReadsIf(config.table) :
        /\ Resolves(session_id, user_id, read_err) =>
              Len(ResolvedData(session_id, user_id, read_err).refinements) < MaxRefinements
        /\ \E answers \in ScriptsIf(Resolves(session_id, user_id, read_err), RefineContents) :
             \E outage \in OutagesIf(/\ Resolves(session_id, user_id, read_err)
                                     /\ HasRecord(session_id, user_id, read_err)
                                     /\ LlmDisposition(LlmCall(answers).err)
                                            \in {"ok", "fallback"}) :
                Apply(Sent(RefineResearch(session_id, user_id, read_err, answers,
                                          DuringOutage(schema, outage)),
                           auth_header),
                      Met(answers, outage, read_err))

Refine ==
    \E session_id \in RequestIds, auth_header \in Headers :
        IF Denied(auth_header, FALSE)
        THEN Apply(Sent(Unauthorized("refine"), auth_header), 0)
        ELSE RefineBy(session_id, auth_header, UserOf(auth_header))

FinalizeBy(session_id, auth_header, user_id) ==
    \E read_err \in ReadsIf(config.table) :
        \E answers \in ScriptsIf(Resolves(session_id, user_id, read_err), FinalizeContents) :
          \E outage \in OutagesIf(/\ Resolves(session_id, user_id, read_err)
                                  /\ HasRecord(session_id, user_id, read_err)
                                  /\ LlmDisposition(LlmCall(answers).err)
                                         \in {"ok", "fallback"}) :
            \E req_tags \in (IF Resolves(session_id, user_id, read_err)
                             THEN TagRequests ELSE {<<>>}) :
                Apply(Sent(Requested(FinalizeResearch(session_id, user_id, req_tags, read_err,
                                                      answers, DuringOutage(schema, outage)),
                                     req_tags, LlmCall(answers).content,
                                     ResolvedData(session_id, user_id, read_err).summary # <<>>),
                           auth_header),
                      Met(answers, outage, read_err))

Finalize ==
    \E session_id \in RequestIds, auth_header \in Headers :
        IF Denied(auth_header, FALSE)
        THEN Apply(Sent(Unauthorized("finalize"), auth_header), 0)
        ELSE FinalizeBy(session_id, auth_header, UserOf(auth_header))

GetSession ==
    \E session_id \in RequestIds, auth_header \in Headers :
        IF Denied(auth_header, FALSE)
        THEN Apply(Sent(Unauthorized("get"), auth_header), 0)
        ELSE \E read_err \in ReadsIf(config.table
                                     /\ CacheGet(session_id, UserOf(auth_header)) = NoItem) :
                Apply(Sent(GetSessionHandler(session_id, UserOf(auth_header), read_err),
                           auth_header),
                      Met(NominalScript, <<>>, read_err))

ExportPdf ==
    \E session_id \in RequestIds, auth_header \in Headers :
        IF Denied(auth_header, TRUE)
        THEN Apply(Sent(Unauthorized("pdf"), auth_header), 0)
        ELSE \E read_err \in ReadsIf(config.table) :
                Apply(Sent(ExportSessionPdf(session_id, UserOf(auth_header), read_err),
                           auth_header),
                      Met(NominalScript, <<>>, read_err))

\* a new process with the same environment: the module-level state of lines
\* 38-52 is built again, the table keeps its rows
Restart ==
    /\ resp = RespNone
    /\ cache # EmptyDict \/ issues # EmptyDict
    /\ cache' = EmptyDict
    /\ issues' = EmptyDict
    /\ UNCHANGED <<config, schema, store, nextId, faults, resp, rw, ww, inflight>>

\* the response leaves the server
Respond ==
    /\ resp # RespNone
    /\ resp' = RespNone
    /\ UNCHANGED <<config, schema, cache, issues, store, nextId, faults, rw, ww, inflight>>

(***************************************************************************)
(* History: the store query, the in-process filter and the paging          *)
(***************************************************************************)
\* _progress_for
ProgressFor(data) ==
    LET outline == Get(data, "outline", EmptyDict)
        subtopics == Get(outline, "subTopics", <<>>)
        refinements == Get(data, "refinements", <<>>)
        summary == Strip(Get(data, "summary", <<>>))
        tags == Get(data, "tags", <<>>)
        p1 == 25 + (IF subtopics # <<>> THEN 25 ELSE 0)
        p2 == p1 + (IF refinements # <<>> THEN 25 ELSE 0)
        p3 == p2 + (IF summary # <<>> \/ tags # <<>> THEN 25 ELSE 0)
    IN  IF p3 < 100 THEN p3 ELSE 100

\* str.split(","): the pieces between the "," tokens
RECURSIVE SplitOnComma(_, _)
SplitOnComma(text, piece) ==
    IF text = <<>> THEN <<piece>>
    ELSE IF Head(text) = "," THEN <<piece>> \o SplitOnComma(Tail(text), <<>>)
    ELSE SplitOnComma(Tail(text), Append(piece, Head(text)))

\* [x.strip() for x in texts if x.strip()]
RECURSIVE StrippedNonBlank(_)
StrippedNonBlank(texts) ==
    IF texts = <<>> THEN <<>>
    ELSE IF Strip(Head(texts)) # <<>>
    THEN <<Strip(Head(texts))>> \o StrippedNonBlank(Tail(texts))
    ELSE StrippedNonBlank(Tail(texts))

\* category_values of lines 437-438
CategoryValues(category) ==
    LET normalized_category == Lower(Strip(category)) IN
    IF normalized_category = <<>> \/ normalized_category = <<"all">> THEN <<>>
    ELSE StrippedNonBlank(SplitOnComma(normalized_category, <<>>))

\* normalized_search of line 439
NormalizedSearch(search) == Lower(Strip(search))

\* (mutant) a filter that leaves the search to the store
MatchesFilters_TrustsStore(outline, tags, category_values, search) ==
    LET tag_l == [i \in 1..Len(tags) |-> Lower(tags[i])] IN
    category_values # <<>> =>
        \E c \in 1..Len(category_values), t \in 1..Len(tag_l) :
            HasPhrase(tag_l[t], category_values[c])

\* _matches_filters
MatchesFilters(outline, tags, category_values, search) ==
    LET tag_l == [i \in 1..Len(tags) |-> Lower(tags[i])]
        subs == Get(outline, "subTopics", <<>>)
        subtopics == [i \in 1..Len(subs) |-> Lower(Get(subs[i], "title", <<>>))]
        title == Lower(Get(outline, "title", <<>>))
        description == Lower(Get(outline, "description", <<>>))
    IN  /\ category_values # <<>> =>
              \E c \in 1..Len(category_values), t \in 1..Len(tag_l) :
                  HasPhrase(tag_l[t], category_values[c])
        /\ search # <<>> =>
              \/ HasPhrase(title, search)
              \/ HasPhrase(description, search)
              \/ \E i \in 1..Len(subtopics) : HasPhrase(subtopics[i], search)
              \/ \E i \in 1..Len(tag_l) : HasPhrase(tag_l[i], search)

\* what the table makes of the formula of _build_history_formula on one row
HistoryFormulaHolds(fields, user_id, category_values, search) ==
    LET col(name) == Lower(Get(fields, name, <<>>)) IN
    /\ Get(fields, "User ID", "") = user_id
    /\ category_values # <<>> =>
          \E c \in 1..Len(category_values) : HasPhrase(col("Tags"), category_values[c])
    /\ search # <<>> =>
          \/ HasPhrase(col("Topic"), search)
          \/ HasPhrase(col("Subtopics"), search)
          \/ HasPhrase(col("Summary"), search)
          \/ HasPhrase(col("Tags"), search)

\* the rows of a set in the order they were created
RECURSIVE InCreationOrder(_)
InCreationOrder(records) ==
    IF records = {} THEN <<>>
    ELSE LET r == FirstRecord(records) IN <<r>> \o InCreationOrder(records \ {r})

\* table.all(formula, max_records): limited is FALSE for max_records=None
TableAll(rows, limited, max_records) ==
    IF limited THEN FirstN(InCreationOrder(rows), max_records) ELSE InCreationOrder(rows)

\* the item lines 463-469 make of a row
HistoryItem(r) ==
    LET data == ParseDataBlob(r.fields) IN
    [sessionId |-> PersistedSessionId(r),
     outline |-> data.outline,
     tags |-> StrippedNonBlank(data.tags),
     progress |-> ProgressFor(data)]

\* the loop of lines 455-469 over the rows fetched
RECURSIVE HistoryLoop(_, _, _)
HistoryLoop(records, category_values, search) ==
    IF records = <<>> THEN <<>>
    ELSE LET item == HistoryItem(Head(records))
             rest == HistoryLoop(Tail(records), category_values, search)
         IN  IF MatchesFilters(item.outline, item.tags, category_values, search)
             THEN <<item>> \o rest
             ELSE rest

\* the ways a history query can go: the formula is accepted, the formula is
\* rejected and the user-only query answers, or both queries fail
HistoryOutages == {"none", "formula", "all"}

\* _build_history_items: [raised, items]
BuildHistoryItems(user_id, category, search, limited, limit, outage) ==
    LET category_values == CategoryValues(category)
        normalized_search == NormalizedSearch(search)
        byFormula == {r \in store :
                         HistoryFormulaHolds(r.fields, user_id, category_values,
                                             normalized_search)}
        byUser == {r \in store : Get(r.fields, "User ID", "") = user_id}
        records == IF outage = "none" THEN TableAll(byFormula, limited, limit)
                   ELSE TableAll(byUser, limited, limit)
        items == HistoryLoop(records, category_values, normalized_search)
    IN  IF outage = "all" THEN [raised |-> ErrRead, items |-> <<>>]
        ELSE IF \E i \in 1..Len(items) : ~ValidOutline(items[i].outline)
        THEN [raised |-> <<"validation", "error">>, items |-> <<>>]
        ELSE [raised |-> <<>>, items |-> items]

\* the request of a history response
HistoryRequest(category, search, page, limit, outage) ==
    [category |-> category, search |-> search, page |-> page, limit |-> limit,
     outage |-> outage]

HistoryAnswer(op, user_id, code, body, read, iss, req) ==
    After(cache, iss, store, nextId,
          [Response(op, user_id, NoId, code, body, "none", read, "none", "none")
              EXCEPT !.req = req])

\* get_history (lines 659-670)
GetHistory(user_id, category, search, outage) ==
    LET built == BuildHistoryItems(user_id, category, search, FALSE, 0, outage)
        req == HistoryRequest(category, search, 1, 0, outage)
    IN  IF ~config.table
        THEN HistoryAnswer("history", user_id, 503, EmptyDict, "none", issues, req)
        ELSE IF built.raised # <<>>
        THEN HistoryAnswer("history", user_id, 500, EmptyDict, "failed",
                           SetProviderIssue(issues, "airtable", "read_error"), req)
        ELSE HistoryAnswer("history", user_id, 200, [items |-> built.items], "ok",
                           ClearProviderIssue(issues, "airtable"), req)

\* get_history_paged (lines 672-704)
GetHistoryPaged(user_id, category, search, page, limit, outage) ==
    LET safe_page == Max(1, page)
        safe_limit == IF Max(1, limit) < 100 THEN Max(1, limit) ELSE 100
        fetch_limit == safe_page * safe_limit + 1
        built == BuildHistoryItems(user_id, category, search, TRUE, fetch_limit, outage)
        items == built.items
        start == (safe_page - 1) * safe_limit
        end == start + safe_limit
        paged_items == SubSeq(items, start + 1, IF Len(items) < end THEN Len(items) ELSE end)
        has_more == Len(items) > end
        total == start + Len(paged_items) + (IF has_more THEN 1 ELSE 0)
        total_pages == safe_page + (IF has_more THEN 1 ELSE 0)
        req == HistoryRequest(category, search, page, limit, outage)
    IN  IF ~config.table
        THEN HistoryAnswer("paged", user_id, 503, EmptyDict, "none", issues, req)
        ELSE IF built.raised # <<>>
        THEN HistoryAnswer("paged", user_id, 500, EmptyDict, "failed",
                           SetProviderIssue(issues, "airtable", "read_error"), req)
        ELSE HistoryAnswer("paged", user_id, 200,
                           [items |-> paged_items, page |-> safe_page, limit |-> safe_limit,
                            total |-> total, totalPages |-> total_pages],
                           "ok", ClearProviderIssue(issues, "airtable"), req)

\* a row as start and finalize leave it
HistoryRow(n, user_id, topic, outline, tags, summary) ==
    LET data == [outline |-> outline, refinements |-> <<>>, summary |-> summary,
                 tags |-> tags]
    IN  [id |-> RecId(n),
         fields |-> DictMerge(CreateFields(SessId(n), user_id, topic, outline, data),
                              [f \in {"Summary", "Tags"} |->
                                  IF f = "Summary" THEN summary ELSE JoinTexts(tags, ", ")])]

HistoryOutline(title, description, subs) ==
    [title |-> title, description |-> description, subTopics |-> subs]

\* the rows a table is drawn from: one whose title has the word searched for,
\* one with it in the description only, one with it in the summary only, one
\* of the other user, one with it in a tag, one with it in a subtopic title,
\* and one without it
HistoryCatalog ==
    {HistoryRow(1, "u1", <<"graph", "databases">>, LlmOutline, << <<"AI">> >>, <<"done">>),
     HistoryRow(2, "u1", <<"quantum">>,
                HistoryOutline(<<"Quantum">>, <<"about", "Graph", "states">>, <<>>),
                <<>>, <<>>),
     HistoryRow(3, "u1", <<"cooking">>,
                HistoryOutline(<<"Cooking">>, <<"food">>, <<>>),
                << <<"Food">> >>, <<"Graph", "of", "tastes">>),
     HistoryRow(4, "u2", <<"graph", "databases">>, LlmOutline, << <<"AI">> >>, <<>>),
     HistoryRow(5, "u1", <<"maps">>,
                HistoryOutline(<<"Maps">>, <<"places">>, <<>>),
                << <<"Graph", "Theory">>, <<"AI">> >>, <<>>),
     HistoryRow(6, "u1", <<"trees">>,
                HistoryOutline(<<"Trees">>, <<"plants">>,
                               <<SubTopicEntry("1", <<"Graph", "Search">>)>>),
                <<>>, <<>>),
     HistoryRow(7, "u1", <<"sorting">>,
                HistoryOutline(<<"Sorting">>, <<"orders">>, <<>>), <<>>, <<>>)}

HistoryCategories == {<<"All">>, <<"AI">>}
HistorySearches == {<<>>, <<Blank, "Graph">>, <<Blank>>}
HistoryPages == 0..3
HistoryLimits == {0, 1, 2, 101}

HistoryPaged ==
    \E auth_header \in Headers :
        IF Denied(auth_header, TRUE)
        THEN Apply(Sent(Unauthorized("paged"), auth_header), 0)
        ELSE \E category \in HistoryCategories, search \in HistorySearches,
                page \in HistoryPages, limit \in HistoryLimits,
                outage \in (IF config.table THEN HistoryOutages ELSE {"none"}) :
                Apply(Sent(GetHistoryPaged(UserOf(auth_header), category, search, page,
                                           limit, outage),
                           auth_header),
                      0)

History ==
    \E auth_header \in Headers :
        IF Denied(auth_header, TRUE)
        THEN Apply(Sent(Unauthorized("history"), auth_header), 0)
        ELSE \E category \in HistoryCategories, search \in HistorySearches,
                outage \in (IF config.table THEN HistoryOutages ELSE {"none"}) :
                Apply(Sent(GetHistory(UserOf(auth_header), category, search, outage),
                           auth_header),
                      0)

(***************************************************************************)
(* Requests in flight.  A handler suspends only at                         *)
(* `await _generate_content_with_retry` (the pyairtable calls block the    *)
(* event loop), so a start, refine or finalize runs in two steps: up to    *)
(* the LLM call, and from its answer to the response.  Requests that end   *)
(* before the LLM call do not suspend.                                     *)
(***************************************************************************)
\* inflight.reqs: the requests made, in the order they were made;
\* inflight.heap: the session dicts the process holds, by identity;
\* inflight.slot: the dict each SESSION_CACHE entry refers to as its "data"
NoneInFlight == [reqs |-> <<>>, heap |-> <<>>, slot |-> EmptyDict]

\* the state of session id s: its cache entry and its rows
SessionState(s) ==
    [item |-> IF s \in DOMAIN cache THEN cache[s] ELSE NoItem,
     rows |-> {r \in store : PersistedSessionId(r) = s \/ r.id = s}]

Suspended(i) == inflight.reqs[i].phase = "llm"

\* the requests in flight for session id s
InFlightFor(s) == {i \in 1..Len(inflight.reqs) : Suspended(i) /\ inflight.reqs[i].sid = s}

\* the requests in flight
InFlight == {i \in 1..Len(inflight.reqs) : Suspended(i)}

\* a request as it suspends: what it resolved (lines 774-785), the dict it
\* holds (obj), and, for the properties, whether no other request for its
\* session has been in flight with it, the requests in flight, the state of
\* its session and the number of refinements when it began
Request(op, auth_header, user_id, session_id, res, obj, req_tags) ==
    [op |-> op, auth |-> auth_header, user |-> user_id, sid |-> session_id,
     record |-> res.record, read |-> res.read, src |-> res.src, obj |-> obj,
     req_tags |-> req_tags, phase |-> "llm", code |-> 0,
     alone |-> InFlightFor(session_id) = {},
     peers |-> InFlight,
     before |-> SessionState(session_id),
     base |-> Len(res.data.refinements)]

\* the requests made so far, those for session id s marked as overlapped
Overlapped(s) ==
    [i \in 1..Len(inflight.reqs) |->
        IF i \in InFlightFor(s) THEN [inflight.reqs[i] EXCEPT !.alone = FALSE]
        ELSE inflight.reqs[i]]

\* lines 779-782: a request that finds the cache entry holds the dict the
\* entry refers to; one that does not holds a dict of its own, parsed from
\* the record
Resume(op, auth_header, user_id, session_id, res, req_tags) ==
    IF res.src = "cache"
    THEN [inflight EXCEPT
            !.reqs = Append(Overlapped(session_id),
                            Request(op, auth_header, user_id, session_id, res,
                                    inflight.slot[session_id], req_tags))]
    ELSE [inflight EXCEPT
            !.reqs = Append(Overlapped(session_id),
                            Request(op, auth_header, user_id, session_id, res,
                                    Len(inflight.heap) + 1, req_tags)),
            !.heap = Append(inflight.heap, res.data)]

\* (mutant) a request that resumes with the dict of the cache entry
ResolvedThen_ReadsAgain(e) ==
    [raised |-> <<>>, record |-> e.record, read |-> e.read, src |-> e.src,
     data |-> IF e.sid \in DOMAIN cache THEN cache[e.sid].data ELSE inflight.heap[e.obj]]

\* what the request resumes with: the dict it holds as it is now
ResolvedThen(e) ==
    [raised |-> <<>>, record |-> e.record, read |-> e.read, src |-> e.src,
     data |-> inflight.heap[e.obj]]

\* whether the handler got as far as _cache_put (lines 824, 914)
DidCachePut(post) == post.resp.code = 200 \/ post.resp.write = "failed"

Finished(e, post) ==
    [op |-> e.op, auth |-> e.auth, user |-> e.user, sid |-> post.resp.sid, phase |-> "done",
     code |-> post.resp.code, alone |-> e.alone, peers |-> e.peers, base |-> e.base]

\* the requests and dicts after request i has run to its response: the dict
\* it held was changed in place and is the one the cache entry refers to
Settled(i, post) ==
    LET e == inflight.reqs[i] IN
    [reqs |-> [inflight.reqs EXCEPT ![i] = Finished(e, post)],
     heap |-> IF DidCachePut(post)
              THEN [inflight.heap EXCEPT ![e.obj] = post.cache[e.sid].data]
              ELSE inflight.heap,
     slot |-> IF DidCachePut(post)
              THEN DictMerge(inflight.slot, [k \in {e.sid} |-> e.obj])
              ELSE inflight.slot]

\* the requests and dicts after start request i has run to its response: the
\* payload of line 599 is a new dict
SettledStart(i, post) ==
    LET e == inflight.reqs[i]
        made == DOMAIN post.cache \ DOMAIN cache
    IN  [reqs |-> [inflight.reqs EXCEPT ![i] = Finished(e, post)],
         heap |-> IF made # {}
                  THEN Append(inflight.heap, post.cache[post.resp.sid].data)
                  ELSE inflight.heap,
         slot |-> IF made # {}
                  THEN DictMerge(inflight.slot,
                                 [k \in made |-> Len(inflight.heap) + 1])
                  ELSE inflight.slot]

\* the tokens of the requests that are let in
KnownHeaders == {h \in Headers : ResolveUserId(h).code = 200}

StartsInFlight ==
    Cardinality({i \in 1..Len(inflight.reqs) : Suspended(i) /\ inflight.reqs[i].op = "start"})

\* lines 567-571 of start: up to the LLM call
StartBegin ==
    /\ Len(inflight.reqs) < MaxRequests
    /\ nextId + StartsInFlight < MaxStarts
    /\ \E auth_header \in KnownHeaders \cap StartHeaders :
          inflight' = [inflight EXCEPT
              !.reqs = Append(@, [op |-> "start", auth |-> auth_header,
                                  user |-> UserOf(auth_header), sid |-> NoId,
                                  record |-> NoRecord, read |-> "none", src |-> "none",
                                  obj |-> 0, req_tags |-> <<>>, phase |-> "llm",
                                  code |-> 0, alone |-> TRUE, peers |-> InFlight,
                                  before |-> SessionState(NoId), base |-> 0])]
    /\ UNCHANGED <<config, schema, cache, issues, store, nextId, faults, resp, rw, ww>>

\* lines 572-657 of start: from the answer of the LLM to the response
StartEnd ==
    \E i \in 1..Len(inflight.reqs) :
        /\ Suspended(i)
        /\ inflight.reqs[i].op = "start"
        /\ \E answers \in AnswerScripts(StartContents) :
             \E outage \in OutagesIf(config.table
                                     /\ LlmDisposition(LlmCall(answers).err)
                                            \in {"ok", "fallback"}) :
                LET post == Sent(StartResearch(inflight.reqs[i].user, nextId + 1, answers,
                                               DuringOutage(schema, outage)),
                                 inflight.reqs[i].auth)
                IN  /\ Commit(post, Met(answers, outage, <<>>))
                    /\ inflight' = SettledStart(i, post)

\* lines 770-785 of refine, for a request that gets as far as the LLM call
RefineBegin ==
    /\ Len(inflight.reqs) < MaxRequests
    /\ \E session_id \in RequestIds, auth_header \in KnownHeaders :
          LET user_id == UserOf(auth_header)
              res == Resolution(session_id, user_id, <<>>)
          IN  /\ Resolves(session_id, user_id, <<>>)
              /\ Len(res.data.refinements) + Cardinality(InFlightFor(session_id))
                    < MaxRefinements
              /\ inflight' = Resume("refine", auth_header, user_id, session_id, res, <<>>)
    /\ UNCHANGED <<config, schema, cache, issues, store, nextId, faults, resp, rw, ww>>

\* lines 786-847 of refine: from the answer of the LLM to the response
RefineEnd ==
    \E i \in 1..Len(inflight.reqs) :
        /\ Suspended(i)
        /\ inflight.reqs[i].op = "refine"
        /\ \E answers \in AnswerScripts(RefineContents) :
             \E outage \in OutagesIf(/\ inflight.reqs[i].record # NoRecord
                                     /\ LlmDisposition(LlmCall(answers).err)
                                            \in {"ok", "fallback"}) :
                LET e == inflight.reqs[i]
                    post == Sent(RefineResolved(e.sid, e.user, ResolvedThen(e),
                                                LlmStep(answers),
                                                DuringOutage(schema, outage)),
                                 e.auth)
                IN  /\ Commit(post, Met(answers, outage, <<>>))
                    /\ inflight' = Settled(i, post)

\* lines 852-868 of finalize, for a request that gets as far as the LLM call
FinalizeBegin ==
    /\ Len(inflight.reqs) < MaxRequests
    /\ \E session_id \in RequestIds, auth_header \in KnownHeaders :
          LET user_id == UserOf(auth_header)
              res == Resolution(session_id, user_id, <<>>)
          IN  /\ Resolves(session_id, user_id, <<>>)
              /\ inflight' = Resume("finalize", auth_header, user_id, session_id, res, <<>>)
    /\ UNCHANGED <<config, schema, cache, issues, store, nextId, faults, resp, rw, ww>>

\* lines 869-936 of finalize: from the answer of the LLM to the response
FinalizeEnd ==
    \E i \in 1..Len(inflight.reqs) :
        /\ Suspended(i)
        /\ inflight.reqs[i].op = "finalize"
        /\ \E answers \in AnswerScripts(FinalizeContents) :
             \E outage \in OutagesIf(/\ inflight.reqs[i].record # NoRecord
                                     /\ LlmDisposition(LlmCall(answers).err)
                                            \in {"ok", "fallback"}) :
                LET e == inflight.reqs[i]
                    post == Sent(FinalizeResolved(e.sid, e.user, e.req_tags, ResolvedThen(e),
                                                  LlmStep(answers),
                                                  DuringOutage(schema, outage)),
                                 e.auth)
                IN  /\ Commit(post, Met(answers, outage, <<>>))
                    /\ inflight' = Settled(i, post)

\* a new process, started when no request is in flight: the cache, the
\* provider issues and the dicts are gone, the table keeps its rows
RestartIdle ==
    /\ resp = RespNone
    /\ cache # EmptyDict
    /\ \A i \in 1..Len(inflight.reqs) : ~Suspended(i)
    /\ cache' = EmptyDict
    /\ issues' = EmptyDict
    /\ inflight' = [inflight EXCEPT !.heap = <<>>, !.slot = EmptyDict]
    /\ UNCHANGED <<config, schema, store, nextId, faults, resp, rw, ww>>

(***************************************************************************)
(* Initial state and specifications                                        *)
(***************************************************************************)
\* LLM_ENABLE_FALLBACK (line 38) and whether the three Airtable settings are
\* present (lines 40-46), any way round, with a token set (line 41)
Configs == [fallback : BOOLEAN, table : BOOLEAN, tokens : {TokenMap}]

\* the deployments: each configuration on a base with every column as the
\* code expects it, and the two other bases with the table configured
Deployments ==
    {[config |-> c, schema |-> SchemaOk] : c \in Configs}
        \cup {[config |-> [fallback |-> FALSE, table |-> TRUE, tokens |-> TokenMap], schema |-> sch] :
                  sch \in BaseSchemas}

Init ==
    /\ \E d \in Deployments : config = d.config /\ schema = d.schema
    /\ cache = EmptyDict
    /\ issues = EmptyDict
    /\ store = {}
    /\ nextId = 0
    /\ faults = 0
    /\ resp = RespNone
    /\ rw = RwIdle
    /\ ww = WwIdle
    /\ inflight = NoneInFlight

\* the wrapper and the write adapter read no configuration
InitOne == Init /\ config = [fallback |-> TRUE, table |-> TRUE, tokens |-> TokenMap]

NextRetry == CallWithRetry
SpecRetry == InitOne /\ [][NextRetry]_vars

NextWrite == WriteStart \/ WriteAttempt \/ WriteFinal
SpecWrite == InitOne /\ [][NextWrite]_vars

\* two starts that may repeat an id, on a base with every column as the code
\* expects it and with providers that do not fail
InitOwners ==
    /\ config = [fallback |-> FALSE, table |-> TRUE, tokens |-> TokenMap]
    /\ schema = SchemaOk
    /\ cache = EmptyDict
    /\ issues = EmptyDict
    /\ store = {}
    /\ nextId = 0
    /\ faults = MaxFaults
    /\ resp = RespNone
    /\ rw = RwIdle
    /\ ww = WwIdle
    /\ inflight = NoneInFlight

NextOwners == StartAny \/ Refine \/ Finalize \/ GetSession \/ ExportPdf \/ Respond \/ Restart
SpecOwners == InitOwners /\ [][NextOwners]_vars

\* the history of a table that holds some of the rows of the catalog
InitHistory ==
    /\ config = [fallback |-> FALSE, table |-> TRUE, tokens |-> TokenMap]
    /\ schema = SchemaOk
    /\ cache = EmptyDict
    /\ issues = EmptyDict
    /\ store \in SUBSET HistoryCatalog
    /\ nextId = 0
    /\ faults = 0
    /\ resp = RespNone
    /\ rw = RwIdle
    /\ ww = WwIdle
    /\ inflight = NoneInFlight

NextHistory == HistoryPaged \/ History \/ Respond
SpecHistory == InitHistory /\ [][NextHistory]_vars

\* every handler under each setting of the token set and of the table, with
\* providers that do not fail
InitAuth ==
    /\ config \in [fallback : {FALSE}, table : BOOLEAN, tokens : {NoTokens, TokenMap}]
    /\ schema = SchemaOk
    /\ cache = EmptyDict
    /\ issues = EmptyDict
    /\ store = {}
    /\ nextId = 0
    /\ faults = MaxFaults
    /\ resp = RespNone
    /\ rw = RwIdle
    /\ ww = WwIdle
    /\ inflight = NoneInFlight

NextAuth ==
    Start \/ Refine \/ Finalize \/ GetSession \/ ExportPdf \/ HistoryPaged \/ History \/ Respond
SpecAuth == InitAuth /\ [][NextAuth]_vars

\* requests that overlap, on a base with every column as the code expects
\* it, with or without the fallback mode, and one provider failure at most
InitInFlight ==
    /\ config \in [fallback : BOOLEAN, table : {TRUE}, tokens : {TokenMap}]
    /\ schema = SchemaOk
    /\ cache = EmptyDict
    /\ issues = EmptyDict
    /\ store = {}
    /\ nextId = 0
    /\ faults = MaxFaults - 1
    /\ resp = RespNone
    /\ rw = RwIdle
    /\ ww = WwIdle
    /\ inflight = NoneInFlight

NextInFlight ==
    StartBegin \/ StartEnd \/ RefineBegin \/ RefineEnd \/ FinalizeBegin \/ FinalizeEnd
        \/ Respond \/ RestartIdle
SpecInFlight == InitInFlight /\ [][NextInFlight]_vars

Next == Start \/ Refine \/ Finalize \/ GetSession \/ ExportPdf \/ Respond \/ Restart
Spec == Init /\ [][Next]_vars

(***************************************************************************)
(* Properties of the quota-aware wrapper                                   *)
(***************************************************************************)
RwCalls == Cardinality({i \in 1..Len(rw.log) : rw.log[i].ev = "call"})

WwInLoop == ww.attempts >= 1 /\ ~ww.final
WwRejected == WwInLoop /\ ww.lastKind \in {"unknown", "computed", "invalid_choice"}

WwExhausted == ww.attempts = MaxAttempts /\ ww.attempt_fields # ww.sent

\* C7 as claimed: with all 8 attempts rejected and stripped, update makes one
\* final write of Data and Status only, and create raises the store's last error.
C7_Claimed ==
    /\ (ww.path = "update" /\ ww.final) => DOMAIN ww.sent = {"Data", "Status"}
    /\ (ww.path = "create" /\ ~ww.final /\ WwExhausted) =>
            ww.phase = "raised" /\ ww.raised = ww.lastErr

\* C7 as amended: with all 8 attempts rejected and stripped, update makes one
\* final write of exactly Data and Status, taken from the fields it was called
\* with ("{}" and "Updated" when absent), and its outcome is the outcome of the
\* update; create makes no further write and raises its own error ("Unable to
\* create Airtable record after removing invalid fields."), not the store's.
C7_BudgetExhausted ==
    /\ (ww.path = "update" /\ ~ww.final /\ WwExhausted) => ww.phase = "final"
    /\ ww.final =>
            /\ ww.path = "update" /\ ww.attempts = MaxAttempts
            /\ ww.phase \in {"ok", "raised"}
            /\ DOMAIN ww.sent = {"Data", "Status"}
            /\ ww.sent["Data"] = Get(ww.fields, "Data", <<"json", EmptyDict>>)
            /\ ww.sent["Status"] = Get(ww.fields, "Status", "Updated")
            /\ ww.phase = "ok" => ww.written = ww.sent
            /\ ww.phase = "raised" => ww.raised = ww.lastErr /\ ww.lastErr # <<>>
    /\ (ww.path = "create" /\ WwExhausted) =>
            /\ ww.phase = "raised"
            /\ ww.raised = ErrCreateExhausted
            /\ ww.raised # ww.lastErr
    /\ ww.phase = "final" => WwExhausted /\ ww.path = "update"

\* update used its 8 attempts and the last-resort write was accepted
C7_Witness ==
    /\ ww.path = "update"
    /\ ww.final
    /\ ww.phase = "ok"
    /\ DOMAIN ww.written = {"Data", "Status"}

(***************************************************************************)
(* Properties of the handlers                                              *)
(***************************************************************************)
LlmOps == {"start", "refine", "finalize"}
ResolvingOps == {"get", "refine", "finalize", "pdf"}

\* this step takes a request of one of `ops` from its arrival to its response
Handled(ops) == resp = RespNone /\ resp'.op \in ops

RecUser(r) == Get(r.fields, "User ID", "")
StatusOf(r) == Get(r.fields, "Status", "")
RecMatches(r, s, u) ==
    RecUser(r) = u /\ (Get(r.fields, "Session ID", NoId) = s \/ r.id = s)
InCacheFor(s, u) == s \in DOMAIN cache /\ cache[s].user_id = u
InStoreFor(s, u) == \E r \in store : RecMatches(r, s, u)
IsPrefix(a, b) == Len(a) <= Len(b) /\ SubSeq(b, 1, Len(a)) = a

\* C1: once the Status stored for a session is Finalized, no later request
\* stores Refined or Initialized (or anything but Finalized) for it.
C1_FinalizedIsFinal ==
    [][\A r \in store : StatusOf(r) = "Finalized" =>
            \A r2 \in store' : r2.id = r.id => StatusOf(r2) = "Finalized"]_vars

\* C2: in start, refine and finalize, when the LLM step succeeded or was
\* replaced by the fallback and the store write then failed, the caller gets
\* the success result, the cache holds the session for the caller, and an
\* issue is recorded for the store.
C2_WriteFailureTolerated ==
    (resp.op \in LlmOps /\ resp.llm \in {"ok", "fallback"} /\ resp.write = "failed") =>
        /\ resp.code = 200
        /\ resp.body # EmptyDict
        /\ resp.sid \in DOMAIN cache /\ cache[resp.sid].user_id = resp.user
        /\ "airtable" \in DOMAIN issues

\* C3: get, refine, finalize and PDF export take the session of (s, u) from
\* the cache entry of s when it is owned by u, whatever the store does; else,
\* when the store was read, from the record whose Session ID and User ID
\* match, else from the record with id s and User ID u; else they answer 404.
C3_ResolutionOrder ==
    [][Handled(ResolvingOps) =>
        LET s == resp'.sid
            u == resp'.user
            byFields == {r \in store : RecUser(r) = u /\ Get(r.fields, "Session ID", NoId) = s}
            byId == {r \in store : RecUser(r) = u /\ r.id = s}
        IN  IF InCacheFor(s, u) THEN resp'.src = "cache"
            ELSE IF resp'.read # "ok" THEN resp'.src = "none"
            ELSE IF byFields # {} \/ byId # {} THEN resp'.src = "store" /\ resp'.code # 404
            ELSE resp'.src = "none" /\ resp'.code = 404]_vars

\* the session states user u holds under id s: the cache entry of s when u
\* owns it, and the records of u that carry s
OwnedBy(s, u) ==
    (IF InCacheFor(s, u) THEN {cache[s].data} ELSE {})
        \cup {ParseDataBlob(r.fields) : r \in {x \in store : RecMatches(x, s, u)}}

\* data is one of the states in `owned`, or one of them after a refine or a
\* finalize
DerivedFrom(data, owned) ==
    \E d \in owned : data.outline = d.outline /\ IsPrefix(d.refinements, data.refinements)

\* C4: a get, refine, finalize or PDF export by user u on session id s answers
\* 200 only when the cache entry of s is owned by u or a record of u carries s,
\* and then returns the session of that entry or record; it writes nothing but
\* u's own session, to the cache slot of s as an entry owned by u and to a
\* record of u that carries s; every other cache entry and every record of
\* another user stays as it was.  A cache entry of another user under s is
\* never read; the write to the slot of s takes its place.
C4_OwnershipEnforced ==
    [][Handled(ResolvingOps) =>
        LET s == resp'.sid
            u == resp'.user
            owned == OwnedBy(s, u)
        IN  /\ \A k \in DOMAIN cache : k \in DOMAIN cache' /\ (k # s => cache'[k] = cache[k])
            /\ DOMAIN cache' \subseteq DOMAIN cache \cup {s}
            /\ (s \in DOMAIN cache' /\ (s \notin DOMAIN cache \/ cache'[s] # cache[s])) =>
                  /\ cache'[s].user_id = u
                  /\ DerivedFrom(cache'[s].data, owned)
            /\ {r \in store : RecUser(r) # u} = {r \in store' : RecUser(r) # u}
            /\ {r.id : r \in store'} = {r.id : r \in store}
            /\ \A r \in store' :
                  r \notin store => RecMatches(r, s, u) /\ DerivedFrom(ParseDataBlob(r.fields), owned)
            /\ resp'.code = 200 =>
                  /\ owned # {}
                  /\ resp'.op \in {"get", "pdf"} =>
                        \E d \in owned : /\ resp'.body.outline = d.outline
                                         /\ resp'.body.refinements = d.refinements
                                         /\ resp'.body.summary
                                               \in {d.summary, d.outline.description}
                                         /\ resp'.body.tags = d.tags
                  /\ resp'.op \in {"refine", "finalize"} =>
                        cache'[s].user_id = u /\ DerivedFrom(cache'[s].data, owned)]_vars

\* u1 asked for a session whose cache slot a later start of u2 has taken over
\* with a session of its own, and was answered with its own session from its
\* record, which is not the one in the slot
C4_Witness ==
    /\ resp.op = "get"
    /\ resp.user = "u1"
    /\ resp.code = 200
    /\ resp.src = "store"
    /\ resp.sid \in DOMAIN cache /\ cache[resp.sid].user_id = "u2"
    /\ resp.body.refinements # cache[resp.sid].data.refinements
    /\ \E r \in store : /\ RecMatches(r, resp.sid, "u1")
                        /\ ParseDataBlob(r.fields).refinements = resp.body.refinements

\* the artifact a handler answers with when the fallback replaced the LLM
FallbackArtifact ==
    LET outline == cache[resp.sid].data.outline IN
    CASE resp.op = "start" ->
            /\ resp.body.outline = FallbackOutline(Topic)
            /\ Len(resp.body.outline.subTopics) = 5
      [] resp.op = "refine" ->
            resp.body.insight = FallbackRefinement(Subtopic, outline.title)
      [] resp.op = "finalize" ->
            resp.body.summary =
                FallbackFinalize(outline, cache[resp.sid].data.refinements).summary

\* C8: in start, refine and finalize, an LLM call that ends in a quota error
\* gives, with fallback mode on, a 200 with the fallback artifact and, with
\* fallback mode off, a 429; any other LLM error gives a 500 in both modes.
C8_LlmFailureOutcomes ==
    resp.op \in LlmOps =>
        /\ resp.llm = "fallback" => config.fallback /\ resp.code = 200 /\ FallbackArtifact
        /\ resp.llm = "quota" => ~config.fallback /\ resp.code = 429
        /\ resp.llm = "error" => resp.code = 500

C10_Claimed ==
    [][(Handled({"refine", "finalize"}) /\ resp'.user \in Users
            /\ ~InCacheFor(resp'.sid, resp'.user)
            /\ ~InStoreFor(resp'.sid, resp'.user)) =>
        /\ resp'.code = 404
        /\ resp'.llm = "none"
        /\ UNCHANGED <<cache, store, issues>>]_vars

\* C10 as amended: such a request makes no LLM call, no cache write and no
\* store write; when the store lookup completes, or no table is configured, it
\* answers 404 and the provider issues stay as they were; when the lookup
\* raises, it answers 500 and records a write_error issue for the store, or,
\* for an error text with "429" or "ResourceExhausted", 429 and a quota issue
\* for the LLM.
C10_NotFoundBeforeAnyEffect ==
    [][(Handled({"refine", "finalize"}) /\ resp'.user \in Users
            /\ ~InCacheFor(resp'.sid, resp'.user)
            /\ ~InStoreFor(resp'.sid, resp'.user)) =>
        /\ resp'.llm = "none"
        /\ resp'.write = "none"
        /\ UNCHANGED <<cache, store>>
        /\ IF resp'.read = "failed"
           THEN \/ /\ resp'.code = 500
                   /\ issues' = SetProviderIssue(issues, "airtable", "write_error")
                \/ /\ resp'.code = 429
                   /\ issues' = SetProviderIssue(issues, "llm", "quota")
           ELSE resp'.code = 404 /\ UNCHANGED issues]_vars

\* u2 asked to finalize the session u1 holds in the cache and in the store,
\* and was answered not-found
C10_Witness ==
    /\ resp.op = "finalize"
    /\ resp.user = "u2"
    /\ resp.code = 404
    /\ resp.read = "ok"
    /\ resp.sid \in DOMAIN cache /\ cache[resp.sid].user_id = "u1"
    /\ \E r \in store : RecMatches(r, resp.sid, "u1")

\* the session a refine or finalize by u on s starts from: the cache entry of
\* s when u owns it, else a record of u that carries s
SessionBefore(s, u) ==
    IF InCacheFor(s, u) THEN {cache[s].data}
    ELSE {ParseDataBlob(r.fields) : r \in {x \in store : RecMatches(x, s, u)}}

Range(seq) == {seq[i] : i \in 1..Len(seq)}

\* the summary and the tags a finalize answered 200 takes from this call: from
\* the completion when the LLM step succeeded, else from the fallback
SummaryOfCall(r, b) ==
    IF r.llm = "ok" THEN Strip(Get(ParseFinalize(r.req.content), "summary", <<>>))
    ELSE FallbackFinalize(b.outline, b.refinements).summary

DerivedTagsOfCall(r, b) ==
    IF r.llm = "ok" THEN StripTags(Get(ParseFinalize(r.req.content), "tags", <<>>))
    ELSE FallbackFinalize(b.outline, b.refinements).tags

\* the caller's tags without the blank ones when one is left, else the derived
\* tags, else the first five subtopic titles
ChosenTagsOfCall(r, b) ==
    IF StripTags(r.req.tags) # <<>> THEN StripTags(r.req.tags)
    ELSE IF DerivedTagsOfCall(r, b) # <<>> THEN DerivedTagsOfCall(r, b)
    ELSE TitleTags(b.outline)

\* C11: a finalize answered 200 leaves the session with the outline and the
\* refinements it had and with the summary and the tags of this call, in the
\* cache and, when the update succeeds, in the record; nothing of an earlier
\* summary or tag list stays.
C11_FinalizeOverwrites ==
    [][(Handled({"finalize"}) /\ resp'.code = 200) =>
        LET s == resp'.sid
            u == resp'.user
        IN  \E b \in SessionBefore(s, u) :
              /\ cache'[s].user_id = u
              /\ cache'[s].data.outline = b.outline
              /\ cache'[s].data.refinements = b.refinements
              /\ cache'[s].data.summary = SummaryOfCall(resp', b)
              /\ Range(cache'[s].data.tags) = Range(ChosenTagsOfCall(resp', b))
              /\ resp'.body.summary = cache'[s].data.summary
              /\ resp'.body.tags = cache'[s].data.tags
              /\ resp'.write = "ok" =>
                    \E r2 \in store' :
                        /\ RecMatches(r2, s, u)
                        /\ ParseDataBlob(r2.fields) = cache'[s].data
                        /\ r2.fields["Summary"] = cache'[s].data.summary]_vars

\* a session that had a summary was finalized again with the caller's tags:
\* the record holds the fallback summary and the caller's tag alone
C11_Witness ==
    /\ resp.op = "finalize"
    /\ resp.code = 200
    /\ resp.write = "ok"
    /\ resp.req.again
    /\ resp.llm = "fallback"
    /\ resp.body.tags = << <<"Mine">> >>
    /\ \E r \in store : /\ ParseDataBlob(r.fields).tags = << <<"Mine">> >>
                        /\ ParseDataBlob(r.fields).summary = resp.body.summary

\* t holds each member of src once, in the order of first occurrence in src
IsDedupOf(t, src) ==
    /\ \A i, j \in 1..Len(t) : i # j => t[i] # t[j]
    /\ Range(t) = Range(src)
    /\ \A i, j \in 1..Len(t) :
          i < j => \E k \in 1..Len(src) : /\ src[k] = t[i]
                                          /\ \A m \in 1..k : src[m] # t[j]

\* C12: after a finalize answered 200 the tag list returned and kept is the
\* chosen tags with each tag once, in the order of first occurrence, the chosen
\* tags being the caller's non-blank tags when there is one and otherwise the
\* derived tags (LLM or fallback, else the first five subtopic titles); the
\* record written holds the same list.
C12_TagsDeduplicated ==
    [][(Handled({"finalize"}) /\ resp'.code = 200) =>
        LET s == resp'.sid
            u == resp'.user
        IN  \E b \in SessionBefore(s, u) :
              /\ IsDedupOf(resp'.body.tags, ChosenTagsOfCall(resp', b))
              /\ cache'[s].data.tags = resp'.body.tags
              /\ resp'.write = "ok" =>
                    \E r2 \in store' :
                        /\ RecMatches(r2, s, u)
                        /\ ParseDataBlob(r2.fields).tags = resp'.body.tags
                        /\ r2.fields["Tags"] = JoinTexts(resp'.body.tags, ", ")]_vars

\* the caller sent a tag twice with a blank one between: the list returned and
\* stored holds it once
C12_Witness ==
    /\ resp.op = "finalize"
    /\ resp.code = 200
    /\ resp.write = "ok"
    /\ resp.req.tags = << <<"Mine">>, <<Blank>>, <<"Mine">> >>
    /\ resp.body.tags = << <<"Mine">> >>
    /\ \E r \in store : ParseDataBlob(r.fields).tags = << <<"Mine">> >>

\* C13: after a request the issue entry of each provider tells how the
\* request's last interaction with it went: none for the store after a write
\* that succeeded, one after a store call that failed; none for the LLM after
\* a call that succeeded, one after a call that failed.
C13_IssuesReflectLatest ==
    resp # RespNone =>
        /\ resp.write = "ok" => "airtable" \notin DOMAIN issues
        /\ (resp.write = "failed" \/ resp.read = "failed") => "airtable" \in DOMAIN issues
        /\ resp.llm = "ok" => "llm" \notin DOMAIN issues
        /\ resp.llm \in {"fallback", "quota", "error"} => "llm" \in DOMAIN issues

(***************************************************************************)
(* Properties of the history                                               *)
(***************************************************************************)
\* the sessions of the user that pass the filters of the request answered, in
\* the order they were created
MatchingSessions ==
    HistoryLoop(InCreationOrder({r \in store : Get(r.fields, "User ID", "") = resp.user}),
                CategoryValues(resp.req.category), NormalizedSearch(resp.req.search))

\* the page the response shows is the window of the matching sessions
PageIsWindow ==
    LET m == MatchingSessions
        p == resp.body.page
        L == resp.body.limit
    IN  resp.body.items = SubSeq(m, (p - 1) * L + 1, IF p * L < Len(m) THEN p * L ELSE Len(m))

\* a further page is reported exactly when sessions remain after the page
MoreIffRemaining ==
    (resp.body.totalPages > resp.body.page)
        <=> (Len(MatchingSessions) > resp.body.page * resp.body.limit)

\* C14: paged history over the N sessions matching the user and the filters,
\* with page p >= 1 and limit L clamped to 1..100, returns the matching
\* sessions at positions (p-1)*L .. p*L-1, reports totalPages >= ceil(N/L) on
\* a non-last page and totalPages = p on the last page, and reports a further
\* page exactly when more than p*L matching sessions exist.
C14_PagedWindow ==
    (resp.op = "paged" /\ resp.code = 200) =>
        LET N == Len(MatchingSessions)
            p == resp.body.page
            L == resp.body.limit
        IN  /\ p = Max(1, resp.req.page)
            /\ L \in 1..100
            /\ PageIsWindow
            /\ p * L < N => resp.body.totalPages * L >= N
            /\ p * L >= N => resp.body.totalPages = p
            /\ MoreIffRemaining

\* the row a history item was made of
RowOf(item) == {r \in store : PersistedSessionId(r) = item.sessionId}

\* the text, in lower case, is in the title, the description, a subtopic title
\* or a tag of the session a row holds
SessionContains(r, text) ==
    LET d == ParseDataBlob(r.fields)
        subs == d.outline.subTopics
    IN  \/ HasPhrase(Lower(d.outline.title), text)
        \/ HasPhrase(Lower(d.outline.description), text)
        \/ \E i \in 1..Len(subs) : HasPhrase(Lower(subs[i].title), text)
        \/ \E i \in 1..Len(d.tags) : HasPhrase(Lower(d.tags[i]), text)

HistorySearched ==
    /\ resp.op \in {"history", "paged"}
    /\ resp.code = 200
    /\ Strip(resp.req.search) # <<>>

AllOps == {"start", "refine", "finalize", "get", "pdf", "history", "paged"}

\* the header is a bearer header whose token maps to user u
BearerOf(auth_header, u) ==
    /\ auth_header # <<>>
    /\ Head(auth_header) = Bearer
    /\ \E t \in DOMAIN config.tokens :
          Strip(Tail(auth_header)) = <<t>> /\ config.tokens[t] = u

\* the request answered in this step went without cache, store or LLM access
NoAccess ==
    /\ UNCHANGED <<cache, store, issues, nextId>>
    /\ resp'.llm = "none" /\ resp'.read = "none" /\ resp'.write = "none"
    /\ resp'.src = "none" /\ resp'.body = EmptyDict

\* the handlers that call _require_table before _resolve_user_id
TableFirstOps == {"pdf", "history", "paged"}

Started == resp.op = "start" /\ resp.code = 200

\* the answers the next request of the same user for the session id returned
\* can get, whatever the providers do
NextAnswers ==
    LET sid == resp.body.sessionId
        u == resp.user
        reads == ReadsIf(config.table)
    IN  {GetSessionHandler(sid, u, e).resp.code : e \in reads}
            \cup {RefineResearch(sid, u, e, a, schema).resp.code :
                      e \in reads, a \in AnswerScripts(RefineContents)}
            \cup {FinalizeResearch(sid, u, <<>>, e, a, schema).resp.code :
                      e \in reads, a \in AnswerScripts(FinalizeContents)}

\* C18: a successful start reports progress 50 and no tags, leaves a session
\* with no refinements, no summary and no tags in the cache (and in the row
\* it created, when it created one) under the session id it returns, and the
\* next get session, refine or finalize of the same user for that id is not
\* answered 404, whether the create succeeded, failed or gave an id of the
\* store's own.
C18_StartedSessionResolves ==
    Started =>
        LET sid == resp.body.sessionId IN
        /\ resp.body.progress = 50
        /\ resp.body.tags = <<>>
        /\ sid \in DOMAIN cache
        /\ cache[sid].user_id = resp.user
        /\ cache[sid].data =
              [outline |-> resp.body.outline, refinements |-> <<>>, summary |-> <<>>,
               tags |-> <<>>]
        /\ resp.write = "ok" =>
              \E r \in store :
                  /\ PersistedSessionId(r) = sid
                  /\ Get(r.fields, "User ID", "") = resp.user
                  /\ "Data" \in DOMAIN r.fields =>
                        /\ ParseDataBlob(r.fields).refinements = <<>>
                        /\ ParseDataBlob(r.fields).summary = <<>>
                        /\ ParseDataBlob(r.fields).tags = <<>>
        /\ resp.write \in {"failed", "none"} =>
              ~\E r \in store : PersistedSessionId(r) = sid
        /\ 404 \notin NextAnswers

\* a start answered with an id the store assigned
C18_Witness ==
    /\ Started
    /\ resp.write = "ok"
    /\ resp.body.sessionId[1] = "rec"

(***************************************************************************)
(* Properties of failed requests                                           *)
(***************************************************************************)
\* C20: a refine or finalize answered 404, 429 or 500 leaves the session as
\* it was: the cache entries and the rows of the table are the same after the
\* request as before it.
C20_FailureChangesNothing ==
    [][(Handled({"refine", "finalize"}) /\ resp'.code \in {404, 429, 500}) =>
          UNCHANGED <<cache, store>>]_vars

\* C21: a request in which no store call failed (each one made succeeded, or
\* none was made) leaves the store's provider-issue entry alone or clears it,
\* whatever became of its LLM step and of the parsing of the completion: it
\* neither creates the entry nor replaces it by another.
C21_StoreIssueOnlyOnStoreFailure ==
    [][(Handled(AllOps) /\ resp'.read # "failed" /\ resp'.write # "failed") =>
          ("airtable" \in DOMAIN issues' =>
              /\ "airtable" \in DOMAIN issues
              /\ issues'["airtable"] = issues["airtable"])]_vars

(***************************************************************************)
(* Properties of requests in flight together                               *)
(***************************************************************************)
\* request i runs from the answer of the LLM to its response in this step
Ending(i) ==
    /\ i \in 1..Len(inflight.reqs)
    /\ Suspended(i)
    /\ inflight'.reqs[i].phase = "done"

\* the state the handler of request e leaves when it runs on its own, from
\* the arrival of the request to the response, in the state of this step
AloneOutcomes(e) ==
    {[cache |-> q.cache, store |-> q.store, code |-> q.resp.code, body |-> q.resp.body] :
        q \in UNION {
            {IF e.op = "start"
             THEN StartResearch(e.user, nextId + 1, a, DuringOutage(schema, o))
             ELSE IF e.op = "refine"
             THEN RefineResearch(e.sid, e.user, <<>>, a, DuringOutage(schema, o))
             ELSE FinalizeResearch(e.sid, e.user, e.req_tags, <<>>, a, DuringOutage(schema, o)) :
                 o \in Outages} :
            a \in AnswerScripts(StartContents \cup RefineContents \cup FinalizeContents)}}

\* the step leaves every session but s as it is
OthersKept(s) ==
    /\ \A k \in DOMAIN cache \ {s} : k \in DOMAIN cache' /\ cache'[k] = cache[k]
    /\ DOMAIN cache' \subseteq DOMAIN cache \cup {s}
    /\ \A r \in store : PersistedSessionId(r) # s => r \in store'
    /\ \A r \in store' : PersistedSessionId(r) # s => r \in store

\* C17: a start, refine or finalize that was in flight with requests for
\* other sessions only finds its session as it was when the request was made,
\* leaves the cache and the table as its handler would have left them running
\* on its own, and leaves every other session as it is.
C17_OtherSessionsApart ==
    [][\A i \in 1..Len(inflight.reqs) :
          (Ending(i) /\ inflight.reqs[i].alone) =>
              LET e == inflight.reqs[i] IN
              /\ e.op # "start" => SessionState(e.sid) = e.before
              /\ [cache |-> cache', store |-> store', code |-> resp'.code,
                  body |-> resp'.body] \in AloneOutcomes(e)
              /\ OthersKept(resp'.sid)]_vars

\* a refine and a finalize for different sessions were in flight together
\* and both were answered 200
C17_Witness ==
    \E i, j \in 1..Len(inflight.reqs) :
        /\ i \in inflight.reqs[j].peers
        /\ inflight.reqs[i].op = "refine" /\ inflight.reqs[j].op = "finalize"
        /\ inflight.reqs[i].sid # inflight.reqs[j].sid
        /\ inflight.reqs[i].phase = "done" /\ inflight.reqs[j].phase = "done"
        /\ inflight.reqs[i].code = 200 /\ inflight.reqs[j].code = 200
        /\ inflight.reqs[i].alone /\ inflight.reqs[j].alone

\* C19: a refine or finalize answered 200 leaves, in the cache and in the row
\* it updates, the dict it held when it suspended with its own change made to
\* it, whatever the cache entry and the row hold by then: the last request to
\* resume wins.
C19_LastWriteWins ==
    [][\A i \in 1..Len(inflight.reqs) :
          (Ending(i) /\ inflight.reqs[i].op \in {"refine", "finalize"} /\ resp'.code = 200) =>
              LET e == inflight.reqs[i]
                  held == inflight.heap[e.obj]
                  left == cache'[e.sid].data
              IN  /\ left.outline = held.outline
                  /\ left.refinements =
                        IF e.op = "refine"
                        THEN Append(held.refinements,
                                    [subtopic |-> resp'.body.subtopic,
                                     insight |-> resp'.body.insight])
                        ELSE held.refinements
                  /\ e.op = "refine" =>
                        left.summary = held.summary /\ left.tags = held.tags
                  /\ e.op = "finalize" =>
                        left.summary = resp'.body.summary /\ left.tags = resp'.body.tags
                  /\ \A r \in store' :
                        r.id = e.record.id => ParseDataBlob(r.fields) = left]_vars

\* two refines of one session were in flight together, both were answered
\* 200, and the session has one refinement more than when they were made, in
\* the cache and in the table
C19_Witness ==
    \E i, j \in 1..Len(inflight.reqs) :
        /\ i \in inflight.reqs[j].peers
        /\ inflight.reqs[i].op = "refine" /\ inflight.reqs[j].op = "refine"
        /\ inflight.reqs[i].sid = inflight.reqs[j].sid
        /\ inflight.reqs[i].phase = "done" /\ inflight.reqs[j].phase = "done"
        /\ inflight.reqs[i].code = 200 /\ inflight.reqs[j].code = 200
        /\ inflight.reqs[i].base = inflight.reqs[j].base
        /\ Len(cache[inflight.reqs[i].sid].data.refinements) = inflight.reqs[i].base + 1
        /\ \E r \in store :
              /\ PersistedSessionId(r) = inflight.reqs[i].sid
              /\ Len(ParseDataBlob(r.fields).refinements) = inflight.reqs[i].base + 1

====
